---- MODULE Spec2Model ----
(***************************************************************************)
(* A model of wannasurf_scraper.py: the seasons-table decoder, the surf     *)
(* spot parser, the recursive country/zone parser, the driver main, the    *)
(* Excel report builder and its seasons renderer.  Python strings are TLA+  *)
(* strings, read character by character with Len, SubSeq and \o.            *)
(***************************************************************************)
EXTENDS Naturals, Sequences, FiniteSets, TLC

VARIABLES
    \* parse_seasons_table
    table,          \* the <table> element: its thead and tbody
    months_format,  \* the keyword argument, "bi" or "single"
    month_headers,  \* the column keys derived from the header
    result,         \* the metric -> (month key -> value) mapping being built
    body_row,       \* the <tr> of the tbody the loop is at, as the document wrote it
    seasons_pc      \* where parse_seasons_table stands

seasons_vars == <<table, months_format, month_headers, result, body_row, seasons_pc>>

VARIABLES
    \* parse_spot_page
    spot,           \* the Spot being filled
    spot_cols,      \* the characteristics columns still to walk
    populated,      \* the fields an extraction step has given a non-empty value
    paras_left,     \* how many more labelled elements the document holds
    spot_pc         \* where parse_spot_page stands

spot_vars == <<spot, populated, spot_cols, paras_left, spot_pc>>

VARIABLES
    \* parse_country_or_zone_page
    stack,          \* the calls of parse_country_or_zone_page in progress
    node_pc,        \* where the outermost call stands
    returned,       \* the outermost call as it returned, its zone being the result
    rows_left,      \* how many more table rows the site's pages hold
    fetched,        \* the URLs handed to fetch, in order
    warnings        \* the "Warning: failed to parse" lines printed, in order

node_vars == <<stack, node_pc, returned, rows_left, fetched, warnings>>

VARIABLES
    \* main
    sample,         \* main's argument
    root_fetch,     \* how the fetch of the homepage ended: "pending", "ok", "failed"
    continents_map, \* what parse_homepage returned
    continents_data,\* the forest: continent -> (country name -> Zone)
    gi,             \* the turn of the loop over continents_map.items()
    ci,             \* the turn of the loop over country_iter
    processing,     \* the "Processing country" lines printed, in order
    main_errors,    \* the "Error processing country" lines printed, in order
    parsed,         \* what parse_country_or_zone_page returned to main, in order
    csv_files,      \* the files of output_csv: path -> number of spot rows
    excel_built,    \* build_excel_workbook has been called
    main_pc         \* where main stands; "aborted" when an exception left it

main_vars ==
    <<sample, root_fetch, continents_map, continents_data, gi, ci, processing,
      main_errors, parsed, csv_files, excel_built, main_pc>>

VARIABLES
    \* build_excel_workbook
    book_data,      \* the continents_data argument
    bk,             \* the turn of the loop over continents_data.items()
    created_sheets, \* the set of sheet names of the workbook being written
    sheets,         \* the worksheets added to that workbook, in order
    ni,             \* the turn of the loop over nested_zones
    li,             \* the turn of the loops over the leaf zones of the countries
    workbooks,      \* the files of output_dir: path -> sheets of the closed workbook
    book_pc         \* where build_excel_workbook stands

book_vars == <<book_data, bk, created_sheets, sheets, ni, li, workbooks, book_pc>>

VARIABLES
    \* format_seasons
    fmt_seasons,    \* the seasons argument
    fmt_metric_key, \* the metric_key argument
    fmt_out,        \* the strings returned, one for each call, in order
    fmt_pc          \* where the caller of format_seasons stands

fmt_vars == <<fmt_seasons, fmt_metric_key, fmt_out, fmt_pc>>

vars == <<seasons_vars, spot_vars, node_vars, main_vars, book_vars, fmt_vars>>

\* What each function leaves alone: the variables of the others.
seasons_frame == <<spot_vars, node_vars, main_vars, book_vars, fmt_vars>>

spot_frame == <<seasons_vars, node_vars, main_vars, book_vars, fmt_vars>>

node_frame == <<seasons_vars, spot_vars, main_vars, book_vars, fmt_vars>>

main_frame == <<seasons_vars, spot_vars, node_vars, book_vars, fmt_vars>>

book_frame == <<seasons_vars, spot_vars, node_vars, main_vars, fmt_vars>>

fmt_frame == <<seasons_vars, spot_vars, node_vars, main_vars, book_vars>>

(***************************************************************************)
(* Python string helpers                                                    *)
(***************************************************************************)

UpperLetters == "ABCDEFGHIJKLMNOPQRSTUVWXYZ"

LowerLetters == "abcdefghijklmnopqrstuvwxyz"

DigitChars == "0123456789"

CharAt(s, i) == SubSeq(s, i, i)

CharsOf(s) == {CharAt(s, i) : i \in 1..Len(s)}

UpperSet == CharsOf(UpperLetters)

LowerSet == CharsOf(LowerLetters)

DigitSet == CharsOf(DigitChars)

\* The lower-case letter of each upper-case letter.
LowerOf ==
    [c \in UpperSet |->
        CharAt(LowerLetters, CHOOSE i \in 1..Len(UpperLetters) : CharAt(UpperLetters, i) = c)]

\* str.lower() of one ASCII character.
LowerChar(c) == IF c \in UpperSet THEN LowerOf[c] ELSE c

RECURSIVE PyLower(_)
\* str.lower()
PyLower(s) ==
    IF s = "" THEN "" ELSE LowerChar(Head(s)) \o PyLower(Tail(s))

RECURSIVE PyReplace(_, _, _)
\* str.replace(old, new) for a one-character old.
PyReplace(s, old, new) ==
    IF s = "" THEN ""
    ELSE (IF Head(s) = old THEN new ELSE Head(s)) \o PyReplace(Tail(s), old, new)

\* str.upper() of one ASCII character.
UpperChar(c) ==
    IF c \in LowerSet
    THEN CharAt(UpperLetters, CHOOSE i \in 1..Len(LowerLetters) : CharAt(LowerLetters, i) = c)
    ELSE c

RECURSIVE TitleFrom(_, _)
\* str.title() of s when the character before it is cased (after_cased) or
\* not: a letter after a cased character is lowered, any other letter raised.
TitleFrom(s, after_cased) ==
    IF s = "" THEN ""
    ELSE LET c == Head(s)
             cased == c \in UpperSet \cup LowerSet
         IN  (IF ~cased THEN c ELSE IF after_cased THEN LowerChar(c) ELSE UpperChar(c))
             \o TitleFrom(Tail(s), cased)

\* str.title()
PyTitle(s) == TitleFrom(s, FALSE)

RECURSIVE PyJoin(_, _)
\* sep.join(parts)
PyJoin(sep, parts) ==
    IF parts = <<>> THEN ""
    ELSE IF Len(parts) = 1 THEN parts[1]
    ELSE parts[1] \o sep \o PyJoin(sep, Tail(parts))

\* str.startswith(prefix)
StartsWith(s, prefix) ==
    /\ Len(s) >= Len(prefix)
    /\ SubSeq(s, 1, Len(prefix)) = prefix

\* str.endswith(suffix)
EndsWith(s, suffix) ==
    /\ Len(s) >= Len(suffix)
    /\ SubSeq(s, Len(s) - Len(suffix) + 1, Len(s)) = suffix

\* The characters \s matches, among those the model's documents use; "~" stands
\* for the non-breaking space \xa0.
Whitespace == {" ", "\n", "\t", "~"}

RECURSIVE PyStrip(_)
\* str.strip()
PyStrip(s) ==
    IF s = "" THEN ""
    ELSE IF Head(s) \in Whitespace THEN PyStrip(Tail(s))
    ELSE IF CharAt(s, Len(s)) \in Whitespace THEN PyStrip(SubSeq(s, 1, Len(s) - 1))
    ELSE s

RECURSIVE CollapseWs(_)
\* re.sub(r"\s+", " ", text)
CollapseWs(s) ==
    IF s = "" THEN ""
    ELSE IF Head(s) \in Whitespace
         THEN IF Len(s) > 1 /\ CharAt(s, 2) \in Whitespace
              THEN CollapseWs(Tail(s))
              ELSE " " \o CollapseWs(Tail(s))
         ELSE Head(s) \o CollapseWs(Tail(s))

\* clean_text
clean_text(text) ==
    IF text = "" THEN "" ELSE PyStrip(CollapseWs(PyReplace(text, "~", " ")))

RECURSIVE LastIndexOf(_, _)
\* str.rfind(c) + 1: the position of the last c in s, 0 when there is none.
LastIndexOf(s, c) ==
    IF s = "" THEN 0
    ELSE IF CharAt(s, Len(s)) = c THEN Len(s)
    ELSE LastIndexOf(SubSeq(s, 1, Len(s) - 1), c)

RECURSIVE UrlPath(_)
\* urlparse(src).path of a URL with no scheme and no host: what comes before
\* the query ("?") and the fragment ("#").
UrlPath(src) ==
    IF src = "" \/ Head(src) \in {"?", "#"} THEN ""
    ELSE Head(src) \o UrlPath(Tail(src))

\* os.path.basename
Basename(path) == SubSeq(path, LastIndexOf(path, "/") + 1, Len(path))

(***************************************************************************)
(* parse_seasons_table                                                      *)
(***************************************************************************)

\* A table has at most this many month columns, and a row this many data cells.
MaxCols == 2

\* Tag.get_text(strip=True) of an element that holds one string.
GetTextStrip(text) == PyStrip(text)

\* The column key of a header cell of a bi-monthly table.
BiMonthKey(cell_text) ==
    PyReplace(PyReplace(PyLower(GetTextStrip(cell_text)), "/", "_"), " ", "_")

\* months_format == "bi": the keys come from the second header row.
BiMonthHeaders(thead_rows) ==
    IF Len(thead_rows) > 1
    THEN [i \in 1..Len(thead_rows[2]) |-> BiMonthKey(thead_rows[2][i])]
    ELSE <<>>

\* re.match(r"[A-Za-z]{3}$", c) of a stripped cell text.
IsMonthName(c) ==
    /\ Len(c) = 3
    /\ CharsOf(c) \subseteq UpperSet \cup LowerSet

\* The cells of a header row that are month names, in order.
MonthNamesOf(row) ==
    SelectSeq([i \in 1..Len(row) |-> GetTextStrip(row[i])], IsMonthName)

\* months_format != "bi": the first header row with a month name in it.
SingleMonthHeaders(thead_rows) ==
    LET hits == {r \in 1..Len(thead_rows) : MonthNamesOf(thead_rows[r]) # <<>>}
    IN  IF hits = {} THEN <<>>
        ELSE LET first == CHOOSE r \in hits : \A q \in hits : r <= q
                 months == MonthNamesOf(thead_rows[first])
             IN  [i \in 1..Len(months) |-> PyLower(months[i])]

\* The key of a body row: its first cell's text, normalised.
MetricName(cell_text) ==
    PyReplace(PyReplace(PyLower(clean_text(cell_text)), " ", "_"), ".", "")

\* CellValue with the test for the placeholder image left out.
CellValueNoPlaceholder(cell) ==
    IF cell.has_img THEN Basename(UrlPath(cell.src)) ELSE clean_text(cell.text)

\* The value of one data cell: the image's file name, "0" for the placeholder
\* image, the cleaned text of a cell with no image.
CellValue(cell) ==
    IF cell.has_img
    THEN LET filename == Basename(UrlPath(cell.src))
         IN  IF StartsWith(PyLower(filename), "wanna-empty") THEN "0" ELSE filename
    ELSE clean_text(cell.text)

\* RowValues for a loop that assigns nothing to a key whose column has no
\* cell in the row.
RowValuesSkipShort(cells, headers) ==
    LET with_cell == {i \in 1..Len(headers) : i + 1 <= Len(cells)}
        keys == {headers[i] : i \in with_cell}
        last(k) == CHOOSE i \in with_cell :
                       /\ headers[i] = k
                       /\ \A j \in with_cell : headers[j] = k => j <= i
    IN  [k \in keys |-> CellValue(cells[last(k) + 1])]

\* The values dict of one body row: values[month_key] is assigned for idx = 0,
\* 1, ... in turn, so the last column of a repeated key is the one kept.
RowValues(cells, headers) ==
    LET keys == {headers[i] : i \in 1..Len(headers)}
        last(k) == CHOOSE i \in 1..Len(headers) :
                       /\ headers[i] = k
                       /\ \A j \in 1..Len(headers) : headers[j] = k => j <= i
    IN  [k \in keys |->
            IF last(k) + 1 > Len(cells) THEN "" ELSE CellValue(cells[last(k) + 1])]

\* result[metric_name] = values
PutMetric(res, metric, values) ==
    [m \in DOMAIN res \cup {metric} |-> IF m = metric THEN values ELSE res[m]]

\* All sequences over S of length at most n.
SeqsUpTo(S, n) == UNION {[1..k -> S] : k \in 0..n}

\* The month rows the model's tables are written with: month pairs, single
\* months, and a row that mixes them, pads a text and repeats a cell.
MonthRowKinds ==
    { <<"Jan/Feb", "Mar/Apr", "May/Jun", "Jul/Aug", "Sep/Oct", "Nov/Dec">>,
      <<"Jan", "Feb", "Mar", "Apr", "May", "Jun">>,
      <<"Jan", " Jan/Feb\n", "Jan", "Mar/Apr", "Feb", "Jan/Feb">> }

\* A month row has the first cells of one of them, MaxCols at most.
MonthRows == {SubSeq(r, 1, k) : r \in MonthRowKinds, k \in 0..MaxCols}

\* The first header row of a two-row header: an empty cell and a grouped cell.
GroupRow == <<"", "Seasons">>

\* The <tr> lists a thead can hold: none, the month row, or the grouped row
\* and then the month row.
TheadChoices ==
    {<<>>} \cup {<<m>> : m \in MonthRows} \cup {<<GroupRow, m>> : m \in MonthRows}

\* The tables decoded: with or without a thead, with or without a tbody.
Tables ==
    {[has_thead |-> FALSE, thead |-> <<>>, has_tbody |-> b] : b \in BOOLEAN}
    \cup [has_thead : {TRUE}, thead : TheadChoices, has_tbody : BOOLEAN]

\* A data cell as the document writes it: an <img> whose src is a directory,
\* a file name and a query, or a text with white space around it.
StarCell ==
    [kind |-> "img", dir |-> "/images/stars/", file |-> "3-star.png",
     query |-> "?v=2", pad |-> "", core |-> ""]

PlaceholderCell ==
    [kind |-> "img", dir |-> "/images/", file |-> "wanna-empty-1x1.gif",
     query |-> "", pad |-> "", core |-> ""]

\* A rating row's cells hold images.
RatingCells == {StarCell, PlaceholderCell}

\* A descriptive row's cells are plain text.
TextCells ==
    { [kind |-> "text", dir |-> "", file |-> "", query |-> "",
       pad |-> "\n ", core |-> "2 m"] }

\* The first cell of a rating row and of a descriptive row as the document
\* writes it, with the key it stands for.
RatingMetric == [raw |-> "best season", key |-> "best_season"]

TextMetric == [raw |-> " Water~ temp.\n", key |-> "water_temp"]

\* The <tr> elements of a tbody: a row with no cell at all, a rating row, a
\* descriptive row.
BodyRows ==
    {[empty |-> TRUE, metric |-> [raw |-> "", key |-> ""], data |-> <<>>]}
    \cup [empty : {FALSE}, metric : {RatingMetric}, data : SeqsUpTo(RatingCells, MaxCols)]
    \cup [empty : {FALSE}, metric : {TextMetric}, data : SeqsUpTo(TextCells, MaxCols)]

\* No row read yet.
NoRow == [empty |-> TRUE, metric |-> [raw |-> "", key |-> ""], data |-> <<>>]

\* The <td> the parser finds for a written data cell.
TdOf(c) ==
    IF c.kind = "img"
    THEN [has_img |-> TRUE, src |-> c.dir \o c.file \o c.query, text |-> ""]
    ELSE [has_img |-> FALSE, src |-> "", text |-> c.pad \o c.core \o c.pad]

\* row.find_all(["td", "th"]) of a written row.
CellsOf(row) ==
    IF row.empty THEN <<>>
    ELSE <<[has_img |-> FALSE, src |-> "", text |-> row.metric.raw]>>
         \o [i \in 1..Len(row.data) |-> TdOf(row.data[i])]

SeasonsInit ==
    /\ table \in Tables
    /\ months_format \in {"bi", "single"}
    /\ month_headers = <<>>
    /\ result = <<>>
    /\ body_row = NoRow
    /\ seasons_pc = "start"

\* parse_seasons_table is not running.
SeasonsIdle ==
    /\ table = [has_thead |-> FALSE, thead |-> <<>>, has_tbody |-> FALSE]
    /\ months_format = "bi"
    /\ month_headers = <<>>
    /\ result = <<>>
    /\ body_row = NoRow
    /\ seasons_pc = "idle"

\* Lines 161-193: table.find("thead") is None for a table with no thead, and
\* .find_all on it raises AttributeError; otherwise the month keys are derived.
SeasonsHeaders ==
    /\ seasons_pc = "start"
    /\ IF ~table.has_thead
       THEN /\ seasons_pc' = "raised"
            /\ UNCHANGED month_headers
       ELSE /\ month_headers' = IF months_format = "bi"
                                THEN BiMonthHeaders(table.thead)
                                ELSE SingleMonthHeaders(table.thead)
            /\ seasons_pc' = "body"
    /\ UNCHANGED <<table, months_format, result, body_row>>
    /\ UNCHANGED seasons_frame

\* Line 196: table.find("tbody").find_all("tr") raises when there is no tbody.
SeasonsBody ==
    /\ seasons_pc = "body"
    /\ seasons_pc' = IF table.has_tbody THEN "rows" ELSE "raised"
    /\ UNCHANGED <<table, months_format, month_headers, result, body_row>>
    /\ UNCHANGED seasons_frame

\* SeasonsRow for a decoder that stores no metric when it has no column key.
SeasonsRowSkipsWithoutKeys ==
    /\ seasons_pc = "rows"
    /\ \E row \in BodyRows :
          LET cells == CellsOf(row)
          IN  /\ body_row' = row
              /\ result' = IF cells = <<>> \/ month_headers = <<>> THEN result
                            ELSE PutMetric(result, MetricName(cells[1].text),
                                           RowValues(cells, month_headers))
    /\ UNCHANGED <<table, months_format, month_headers, seasons_pc>>
    /\ UNCHANGED seasons_frame

\* Lines 197-227: one turn of the loop over the body rows.
SeasonsRow ==
    /\ seasons_pc = "rows"
    /\ \E row \in BodyRows :
          LET cells == CellsOf(row)
          IN  /\ body_row' = row
              /\ result' = IF cells = <<>> THEN result
                            ELSE PutMetric(result, MetricName(cells[1].text),
                                           RowValues(cells, month_headers))
    /\ UNCHANGED <<table, months_format, month_headers, seasons_pc>>
    /\ UNCHANGED seasons_frame

\* Line 228: return result
SeasonsReturn ==
    /\ seasons_pc = "rows"
    /\ seasons_pc' = "done"
    /\ UNCHANGED <<table, months_format, month_headers, result, body_row>>
    /\ UNCHANGED seasons_frame

SeasonsNext == SeasonsHeaders \/ SeasonsBody \/ SeasonsRow \/ SeasonsReturn

(***************************************************************************)
(* Properties of parse_seasons_table                                        *)
(***************************************************************************)

\* The value a written data cell stands for, read off what the document's
\* author wrote: the file name of an image, "0" for the placeholder image,
\* the text without the white space around it.
WrittenValue(c) ==
    IF c.kind = "img"
    THEN IF c.file = "wanna-empty-1x1.gif" THEN "0" ELSE c.file
    ELSE c.core

\* The table of the example: the month row ["Jan/Feb", "Mar/Apr"] and the
\* row ["best season", 3-star.png, wanna-empty-1x1.gif].
ExampleDecoded ==
    /\ table.has_thead
    /\ table.thead = <<GroupRow, <<"Jan/Feb", "Mar/Apr">>>>
    /\ months_format = "bi"
    /\ body_row = [empty |-> FALSE, metric |-> RatingMetric,
                   data |-> <<StarCell, PlaceholderCell>>]
    /\ seasons_pc \in {"rows", "done"}

\* C10: in paired ("bi") mode every data cell of the row just decoded is
\* stored under its column key as the image's file name without directory,
\* as "0" for the placeholder image, and as the cleaned text of a cell with
\* no image; the example table decodes to
\* {"best_season": {"jan_feb": "3-star.png", "mar_apr": "0"}}.
C10_PairedCellDecoding ==
    /\ (seasons_pc \in {"rows", "done"} /\ months_format = "bi" /\ ~body_row.empty) =>
          /\ body_row.metric.key \in DOMAIN result
          /\ \A i \in 1..Len(month_headers) :
                ( /\ i <= Len(body_row.data)
                  /\ \A j \in (i + 1)..Len(month_headers) :
                        month_headers[j] # month_headers[i] )
                => /\ month_headers[i] \in DOMAIN result[body_row.metric.key]
                   /\ result[body_row.metric.key][month_headers[i]]
                        = WrittenValue(body_row.data[i])
    /\ ExampleDecoded =>
          /\ "best_season" \in DOMAIN result
          /\ result["best_season"] = ("jan_feb" :> "3-star.png" @@ "mar_apr" :> "0")
          /\ (DOMAIN result = {"best_season"} =>
                result = ("best_season" :> ("jan_feb" :> "3-star.png" @@ "mar_apr" :> "0")))

\* C10's case: the example table has been decoded and returned, its one
\* metric row being the only metric of the result.
C10_Witness ==
    /\ ExampleDecoded
    /\ seasons_pc = "done"
    /\ DOMAIN result = {"best_season"}

\* The header of the table holds no qualifying row: fewer than two rows in
\* paired mode, no row with a cell of three letters in single mode.
NoQualifyingHeaderRow ==
    /\ table.has_thead
    /\ IF months_format = "bi" THEN Len(table.thead) < 2
       ELSE \A r \in 1..Len(table.thead) : \A i \in 1..Len(table.thead[r]) :
                ~IsMonthName(PyStrip(table.thead[r][i]))

NeitherShape ==
    ~table.has_thead \/ ~table.has_tbody \/ NoQualifyingHeaderRow

\* C12: decoding a table that matches neither header shape never raises,
\* and what is returned for it has no column key.
C12_NeverRaises ==
    NeitherShape =>
        /\ seasons_pc # "raised"
        /\ seasons_pc = "done" => \A m \in DOMAIN result : DOMAIN result[m] = {}

\* The column keys of the table, as a set.
ColumnKeys == {month_headers[i] : i \in 1..Len(month_headers)}

\* C20: every metric's mapping in the result has exactly the column keys as
\* its keys; in the mapping of the row read last the key of column i holds
\* the value of data cell i, and the empty string when the row has no such
\* cell (of two columns with the same key the later one is the one kept).
C20_KeysAligned ==
    seasons_pc \in {"rows", "done"} =>
        /\ \A m \in DOMAIN result : DOMAIN result[m] = ColumnKeys
        /\ ~body_row.empty =>
              /\ body_row.metric.key \in DOMAIN result
              /\ \A i \in 1..Len(month_headers) :
                    (\A j \in (i + 1)..Len(month_headers) :
                          month_headers[j] # month_headers[i])
                    => result[body_row.metric.key][month_headers[i]]
                         = IF i <= Len(body_row.data)
                           THEN WrittenValue(body_row.data[i])
                           ELSE ""

\* A table with two column keys, returned after a rating row with one data
\* cell: the second key is there, with the empty string.
C20_Witness ==
    /\ seasons_pc = "done"
    /\ months_format = "single"
    /\ Len(month_headers) = 2
    /\ month_headers[1] # month_headers[2]
    /\ body_row = [empty |-> FALSE, metric |-> RatingMetric, data |-> <<StarCell>>]
    /\ result["best_season"][month_headers[1]] = "3-star.png"
    /\ result["best_season"][month_headers[2]] = ""

(***************************************************************************)
(* Spot and parse_spot_page                                                 *)
(***************************************************************************)

\* A spot document holds at most this many <p> elements in its access table
\* and its characteristics columns together.
MaxParas == 2

\* The fields of the dataclass Spot after name, in to_row order.
SpotDataFields ==
    << "distance", "walk", "easy_to_find", "public_access", "special_access",
       "wave_quality", "experience", "frequency", "type", "direction", "bottom",
       "power", "normal_length", "good_day_length", "good_swell_direction",
       "good_wind_direction", "swell_size", "best_tide_position",
       "best_tide_movement", "additional_information", "latitude", "longitude" >>

SeqToSet(q) == {q[i] : i \in 1..Len(q)}

\* Spot(name=name): every other field defaults to "".
NewSpot(name) ==
    [f \in {"name"} \cup SeqToSet(SpotDataFields) |-> IF f = "name" THEN name ELSE ""]

\* The if/elif chain of the access table: label -> attribute.
AccessLabels ==
    "distance" :> "distance" @@ "walk" :> "walk" @@ "easy to find?" :> "easy_to_find"
    @@ "public access?" :> "public_access" @@ "special access" :> "special_access"

\* The if/elif chain of the characteristics columns: label -> attribute.
CharacteristicsLabels ==
    "wave quality" :> "wave_quality" @@ "experience" :> "experience"
    @@ "frequency" :> "frequency" @@ "type" :> "type" @@ "direction" :> "direction"
    @@ "bottom" :> "bottom" @@ "power" :> "power" @@ "normal length" :> "normal_length"
    @@ "good day length" :> "good_day_length"
    @@ "good swell direction" :> "good_swell_direction"
    @@ "good wind direction" :> "good_wind_direction" @@ "swell size" :> "swell_size"
    @@ "best tide position" :> "best_tide_position"
    @@ "best tide movement" :> "best_tide_movement"

RECURSIVE RStripColon(_)
\* str.rstrip(":")
RStripColon(s) ==
    IF s # "" /\ CharAt(s, Len(s)) = ":" THEN RStripColon(SubSeq(s, 1, Len(s) - 1)) ELSE s

\* clean_text(label_span.get_text()).rstrip(":").lower()
NormalLabel(raw) == PyLower(RStripColon(clean_text(raw)))

\* One labelled <p>: the attribute its label names, if any, takes the cleaned
\* text that is left once the spans are removed.
AssignLabelled(sp, labels, raw_label, raw_value) ==
    LET label == NormalLabel(raw_label)
    IN  IF label \in DOMAIN labels
        THEN [sp EXCEPT ![labels[label]] = clean_text(raw_value)]
        ELSE sp

\* The list of field names of the closing loop.
NormalizedFields ==
    << "distance", "walk", "easy_to_find", "public_access", "special_access",
       "wave_quality", "experience", "frequency", "type", "direction", "bottom",
       "power", "normal_length", "good_day_length", "good_swell_direction",
       "good_wind_direction", "swell_size", "best_tide_position",
       "best_tide_movement", "latitude", "longitude", "additional_information" >>

\* The list of the closing loop with its last three names left out.
NormalizedFieldsShort == SubSeq(NormalizedFields, 1, Len(NormalizedFields) - 3)

\* for field_name in [...]: if not val: setattr(spot, field_name, "empty")
Normalize(sp, names) ==
    [f \in DOMAIN sp |-> IF f \in SeqToSet(names) /\ sp[f] = "" THEN "empty" ELSE sp[f]]

\* The label spans the model's spot documents are written with.
RawLabels ==
    { "Distance", "Walk:", "Easy to find?", "Public access?", "Special access",
      "Wave quality", "Experience", "Frequency", "Type", "Direction:", "Bottom",
      "Power", "Normal length", "Good day length", "Good swell direction",
      "Good wind direction", "Swell size", "Best tide position",
      "Best tide~movement ::", "Crowd" }

\* The texts that follow a label: none, white space only, a value.
RawValues == {"", "~\n", " 5~ min\n"}

\* The texts of a whole element.
RawTexts == {"", " Mellow  reef\n"}

\* The text nodes that follow a GPS label.
RawCoordinates == {"", " ", " 21° 39.9' N "}

\* The fields of a Spot that hold a non-empty string: while the extraction
\* steps run, the fields that one of them has assigned a value.
NonEmptyFields(sp) == {f \in SeqToSet(SpotDataFields) : sp[f] # ""}

SpotInit ==
    /\ spot = NewSpot("")
    /\ populated = {}
    /\ spot_cols = <<>>
    /\ paras_left = MaxParas
    /\ spot_pc = "fetch"

\* parse_spot_page is not running.
SpotIdle ==
    /\ spot = NewSpot("")
    /\ populated = {}
    /\ spot_cols = <<>>
    /\ paras_left = 0
    /\ spot_pc = "idle"

\* Lines 297-303: fetch raises, or the spot is created under its name.
SpotFetch ==
    /\ spot_pc = "fetch"
    /\ \E ok \in BOOLEAN :
          IF ok
          THEN /\ spot' = NewSpot("Pipeline")
               /\ spot_pc' = "access"
          ELSE /\ spot_pc' = "raised"
               /\ UNCHANGED spot
    /\ UNCHANGED <<populated, spot_cols, paras_left>>
    /\ UNCHANGED spot_frame

\* Lines 313-321: the heading that ends with "access" and the table after it.
SpotAccessSection ==
    /\ spot_pc = "access"
    /\ \E header \in BOOLEAN, tbl \in BOOLEAN :
          spot_pc' = IF header /\ tbl THEN "access_table" ELSE "characteristics"
    /\ UNCHANGED <<spot, populated, spot_cols, paras_left>>
    /\ UNCHANGED spot_frame

\* Lines 324-342: one <p> of the access table.
SpotAccessPara ==
    /\ spot_pc = "access_table"
    /\ paras_left > 0
    /\ paras_left' = paras_left - 1
    /\ \E labelled \in BOOLEAN, raw_label \in RawLabels, raw_value \in RawValues :
          spot' = IF labelled
                  THEN AssignLabelled(spot, AccessLabels, raw_label, raw_value)
                  ELSE spot
    /\ populated' = populated \cup NonEmptyFields(spot')
    /\ UNCHANGED <<spot_cols, spot_pc>>
    /\ UNCHANGED spot_frame

\* The access table has no further <p>.
SpotAccessEnd ==
    /\ spot_pc = "access_table"
    /\ spot_pc' = "characteristics"
    /\ UNCHANGED <<spot, populated, spot_cols, paras_left>>
    /\ UNCHANGED spot_frame

\* Lines 347-360: the characteristics heading and the two column containers.
SpotCharacteristicsSection ==
    /\ spot_pc = "characteristics"
    /\ \E header \in BOOLEAN, left \in BOOLEAN, right \in BOOLEAN :
          LET cols == (IF left THEN <<"left">> ELSE <<>>)
                      \o (IF right THEN <<"right">> ELSE <<>>)
          IN  IF header /\ cols # <<>>
              THEN /\ spot_cols' = cols
                   /\ spot_pc' = "column"
              ELSE /\ spot_cols' = <<>>
                   /\ spot_pc' = "additional"
    /\ UNCHANGED <<spot, populated, paras_left>>
    /\ UNCHANGED spot_frame

\* Lines 362-402: one child of the column at hand: an <h5>, a <p> with or
\* without a label span, or anything else.
SpotColumnChild ==
    /\ spot_pc = "column"
    /\ paras_left > 0
    /\ paras_left' = paras_left - 1
    /\ \E tag \in {"h5", "p", "div"}, labelled \in BOOLEAN,
          raw_label \in RawLabels, raw_value \in RawValues :
          spot' = IF tag = "p" /\ labelled
                  THEN AssignLabelled(spot, CharacteristicsLabels, raw_label, raw_value)
                  ELSE spot
    /\ populated' = populated \cup NonEmptyFields(spot')
    /\ UNCHANGED <<spot_cols, spot_pc>>
    /\ UNCHANGED spot_frame

\* The column at hand has no further child.
SpotColumnEnd ==
    /\ spot_pc = "column"
    /\ spot_cols' = Tail(spot_cols)
    /\ spot_pc' = IF Tail(spot_cols) = <<>> THEN "additional" ELSE "column"
    /\ UNCHANGED <<spot, populated, paras_left>>
    /\ UNCHANGED spot_frame

\* Lines 408-418: the heading that starts with "additional information" and
\* the first inline <p> after it.
SpotAdditional ==
    /\ spot_pc = "additional"
    /\ \E header \in BOOLEAN, p_inline \in BOOLEAN, text \in RawTexts :
          spot' = IF header /\ p_inline
                  THEN [spot EXCEPT !.additional_information = clean_text(text)]
                  ELSE spot
    /\ spot_pc' = "coordinates"
    /\ populated' = populated \cup NonEmptyFields(spot')
    /\ UNCHANGED <<spot_cols, paras_left>>
    /\ UNCHANGED spot_frame

\* SpotCoordinates for a function whose closing loop stands before the
\* coordinates step.
SpotCoordinatesAfterClosingLoop ==
    /\ spot_pc = "coordinates"
    /\ \E lat_span \in BOOLEAN, lat_text \in RawCoordinates,
          lon_span \in BOOLEAN, lon_text \in RawCoordinates :
          LET filled == Normalize(spot, NormalizedFields)
              with_lat == IF lat_span /\ lat_text # ""
                          THEN [filled EXCEPT !.latitude = clean_text(lat_text)]
                          ELSE filled
          IN  spot' = IF lon_span /\ lon_text # ""
                      THEN [with_lat EXCEPT !.longitude = clean_text(lon_text)]
                      ELSE with_lat
    /\ spot_pc' = "normalize"
    /\ populated' = populated \cup {f \in NonEmptyFields(spot') : spot'[f] # "empty"}
    /\ UNCHANGED <<spot_cols, paras_left>>
    /\ UNCHANGED spot_frame

\* Lines 425-435: the GPS label spans and the node after each.
SpotCoordinates ==
    /\ spot_pc = "coordinates"
    /\ \E lat_span \in BOOLEAN, lat_text \in RawCoordinates,
          lon_span \in BOOLEAN, lon_text \in RawCoordinates :
          LET with_lat == IF lat_span /\ lat_text # ""
                          THEN [spot EXCEPT !.latitude = clean_text(lat_text)]
                          ELSE spot
          IN  spot' = IF lon_span /\ lon_text # ""
                      THEN [with_lat EXCEPT !.longitude = clean_text(lon_text)]
                      ELSE with_lat
    /\ spot_pc' = "normalize"
    /\ populated' = populated \cup NonEmptyFields(spot')
    /\ UNCHANGED <<spot_cols, paras_left>>
    /\ UNCHANGED spot_frame

\* SpotNormalize with a closing loop that stops three names early.
SpotNormalizeShort ==
    /\ spot_pc = "normalize"
    /\ spot' = Normalize(spot, NormalizedFieldsShort)
    /\ spot_pc' = "done"
    /\ UNCHANGED <<populated, spot_cols, paras_left>>
    /\ UNCHANGED spot_frame

\* Lines 440-470: the closing loop, and return spot.
SpotNormalize ==
    /\ spot_pc = "normalize"
    /\ spot' = Normalize(spot, NormalizedFields)
    /\ spot_pc' = "done"
    /\ UNCHANGED <<populated, spot_cols, paras_left>>
    /\ UNCHANGED spot_frame

SpotNext ==
    \/ SpotFetch
    \/ SpotAccessSection
    \/ SpotAccessPara
    \/ SpotAccessEnd
    \/ SpotCharacteristicsSection
    \/ SpotColumnChild
    \/ SpotColumnEnd
    \/ SpotAdditional
    \/ SpotCoordinates
    \/ SpotNormalize

(***************************************************************************)
(* Properties of parse_spot_page                                            *)
(***************************************************************************)

SentinelFilled(sp) ==
    [f \in DOMAIN sp |->
        IF f \in SeqToSet(SpotDataFields) /\ sp[f] = "" THEN "empty" ELSE sp[f]]

\* One step of parse_spot_page: the closing loop is entered from the
\* coordinates step only and left for the return only, it fills the fields
\* that are empty then and changes no other, no other step writes "empty",
\* and nothing is written once it has run.
C19_Step ==
    /\ spot_pc' = "normalize" /\ spot_pc # "normalize" => spot_pc = "coordinates"
    /\ spot_pc = "normalize" => spot_pc' = "done" /\ spot' = SentinelFilled(spot)
    /\ spot_pc' = "done" => spot_pc \in {"normalize", "done"}
    /\ spot_pc = "done" => spot' = spot /\ spot_pc' = "done"
    /\ spot_pc # "normalize" =>
          \A i \in 1..Len(SpotDataFields) :
              spot'[SpotDataFields[i]] = "empty" => spot[SpotDataFields[i]] = "empty"

\* C19 as claimed: the closing loop runs once and last, and a field that an
\* extraction step gave a non-empty value is not "empty" in the Spot
\* returned.
C19_AsClaimed ==
    /\ [][C19_Step]_vars
    /\ [](spot_pc = "done" => \A f \in populated : spot[f] # "empty")

\* C19: the closing loop runs once, after the four extraction steps, and
\* nothing is written after it; a field that is non-empty when the
\* extraction ends is returned with that value, and a field is returned as
\* "empty" exactly when it is the empty string when the extraction ends.
C19_SentinelLast == [][C19_Step]_vars

\* A returned Spot whose coordinates, read in the last extraction step, are
\* kept next to fields the closing loop filled.
C19_Witness ==
    /\ spot_pc = "done"
    /\ spot.longitude = "21° 39.9' N"
    /\ spot.latitude = "empty"
    /\ spot.walk = "5 min"
    /\ spot.distance = "empty"

(***************************************************************************)
(* Zone and parse_country_or_zone_page                                      *)
(***************************************************************************)

\* The tables of all the pages of the site hold at most this many rows.
MaxRows == 3

\* Zone(name=name, url=url): both lists start empty.  A page is named after
\* its URL here.
NewZone(url) == [name |-> url, url |-> url, surf_spots |-> <<>>, sub_zones |-> <<>>]

\* The Spot parse_spot_page returns for a page, named after its URL.
SpotOf(url) == [name |-> url]

\* The rows of a table: a row whose first cell holds a link to a page of its
\* own, a row whose first cell links back to the page the table is on, a row
\* whose first cell holds no link, a row with no <td> at all.
RowKinds == {"link", "self", "text", "head"}

\* A table that is not in the document.
NoTable == <<"absent">>

\* The tables a document can hold when n more rows may be written.
TablesUpTo(n) == {NoTable} \cup SeqsUpTo(RowKinds, n)

RowCount(t) == IF t = NoTable THEN 0 ELSE Len(t)

\* The seasons tables of a page: none, one with thead and tbody, one with no
\* thead, one with no tbody.
NodeSeasonsTables ==
    { [present |-> FALSE, has_thead |-> FALSE, has_tbody |-> FALSE],
      [present |-> TRUE, has_thead |-> TRUE, has_tbody |-> TRUE],
      [present |-> TRUE, has_thead |-> FALSE, has_tbody |-> TRUE],
      [present |-> TRUE, has_thead |-> TRUE, has_tbody |-> FALSE] }

\* The documents a fetch can return when n more rows may be written: in
\* document order an <h3> "Zones", a table, an <h3> "Surf Spots", a table,
\* each of them there or not.
Pages(n) ==
    UNION { [ seasons : NodeSeasonsTables,
              zones_header : BOOLEAN, first_table : {t},
              spots_header : BOOLEAN,
              second_table : TablesUpTo(n - RowCount(t)) ] : t \in TablesUpTo(n) }

\* Lines 570-578: parse_seasons_table raises on a table without thead or
\* without tbody, and nothing here catches it.
SeasonsRaises(pg) ==
    pg.seasons.present /\ ~(pg.seasons.has_thead /\ pg.seasons.has_tbody)

\* The href of row i of a table whose first row is row number `first` of the
\* site, when the row links to a page of its own.
Href(first, i) == first + i - 1

\* for tr in table.find_all("tr"): the URLs of the rows with a link in their
\* first cell, in order; url is the URL of the page the table is on.
LinksOf(t, first, url) ==
    IF t = NoTable THEN <<>>
    ELSE LET idx == SelectSeq([i \in 1..Len(t) |-> i],
                              LAMBDA i : t[i] \in {"link", "self"})
         IN  [k \in 1..Len(idx) |->
                 IF t[idx[k]] = "self" THEN url ELSE Href(first, idx[k])]

\* header.find_next("table") for the "Zones" heading: the first table after
\* it in the document, which is the second one when the first is missing.
ZonesTable(pg) ==
    IF ~pg.zones_header THEN NoTable
    ELSE IF pg.first_table # NoTable THEN pg.first_table
    ELSE pg.second_table

\* header.find_next("table") for the "Surf Spots" heading.
SpotsTable(pg) == IF pg.spots_header THEN pg.second_table ELSE NoTable

\* Lines 596-614: zones_list, for a page whose rows start at row `first`.
ZonesList(pg, first, url) == LinksOf(ZonesTable(pg), first, url)

\* Lines 616-634: spots_list
SpotsList(pg, first, url) ==
    LinksOf(SpotsTable(pg), first + RowCount(pg.first_table), url)

\* The call of parse_country_or_zone_page on a fetched document, about to
\* walk spots_list and then zones_list.  spot_errors and zone_errors are the
\* turns of the two loops that ended in their except branch.
NewFrame(url, is_country, pg, first) ==
    [ zone |-> NewZone(url), is_country |-> is_country,
      spots_list |-> SpotsList(pg, first, url),
      zones_list |-> ZonesList(pg, first, url),
      si |-> 1, zi |-> 1, spot_errors |-> {}, zone_errors |-> {} ]

Top == stack[Len(stack)]

\* The stack with its top frame replaced.
WithTop(f) == [stack EXCEPT ![Len(stack)] = f]

\* The first row number not yet used by a page of the site.
NextRow == MaxRows - rows_left + 1

\* The URL of the country page the outermost call is given.
RootUrl == 0

\* No call has returned.
NoPage ==
    [seasons |-> [present |-> FALSE, has_thead |-> FALSE, has_tbody |-> FALSE],
     zones_header |-> FALSE, first_table |-> NoTable,
     spots_header |-> FALSE, second_table |-> NoTable]

NoFrame == NewFrame(RootUrl, TRUE, NoPage, 1)

NodeInit ==
    /\ stack = <<>>
    /\ node_pc = "start"
    /\ returned = NoFrame
    /\ rows_left = MaxRows
    /\ fetched = <<>>
    /\ warnings = <<>>

\* parse_country_or_zone_page is not running.
NodeIdle ==
    /\ stack = <<>>
    /\ node_pc = "idle"
    /\ returned = NoFrame
    /\ rows_left = 0
    /\ fetched = <<>>
    /\ warnings = <<>>

\* Lines 532-634 of the outermost call: the document is fetched and either
\* its seasons table raises or its links are listed, or fetch itself raises.
NodeStart ==
    /\ node_pc = "start"
    /\ fetched' = Append(fetched, RootUrl)
    /\ \/ \E pg \in Pages(rows_left) :
             IF ~SeasonsRaises(pg)
             THEN /\ stack' = <<NewFrame(RootUrl, TRUE, pg, NextRow)>>
                  /\ rows_left' = rows_left - RowCount(pg.first_table)
                                            - RowCount(pg.second_table)
                  /\ node_pc' = "running"
             ELSE /\ node_pc' = "raised"
                  /\ UNCHANGED <<stack, rows_left>>
       \/ /\ node_pc' = "raised"
          /\ UNCHANGED <<stack, rows_left>>
    /\ UNCHANGED <<returned, warnings>>
    /\ UNCHANGED node_frame

\* NodeSpot for a parser that keeps a parsed spot only when the page lists
\* no zone.
NodeSpotOnlyWithoutZones ==
    /\ node_pc = "running"
    /\ Top.si <= Len(Top.spots_list)
    /\ LET s_url == Top.spots_list[Top.si]
       IN  /\ fetched' = Append(fetched, s_url)
           /\ \E ok \in BOOLEAN :
                 IF ok
                 THEN /\ stack' = WithTop([Top EXCEPT
                                   !.zone.surf_spots =
                                       IF Top.zones_list = <<>>
                                       THEN Append(@, SpotOf(s_url)) ELSE @,
                                   !.si = @ + 1])
                      /\ UNCHANGED warnings
                 ELSE /\ stack' = WithTop([Top EXCEPT
                                   !.spot_errors = @ \cup {Top.si},
                                   !.si = @ + 1])
                      /\ warnings' = Append(warnings, [kind |-> "spot", url |-> s_url])
    /\ UNCHANGED <<node_pc, returned, rows_left>>
    /\ UNCHANGED node_frame

\* Lines 637-647: one turn of the loop over spots_list.
NodeSpot ==
    /\ node_pc = "running"
    /\ Top.si <= Len(Top.spots_list)
    /\ LET s_url == Top.spots_list[Top.si]
       IN  /\ fetched' = Append(fetched, s_url)
           /\ \E ok \in BOOLEAN :
                 IF ok
                 THEN /\ stack' = WithTop([Top EXCEPT
                                   !.zone.surf_spots = Append(@, SpotOf(s_url)),
                                   !.si = @ + 1])
                      /\ UNCHANGED warnings
                 ELSE /\ stack' = WithTop([Top EXCEPT
                                   !.spot_errors = @ \cup {Top.si},
                                   !.si = @ + 1])
                      /\ warnings' = Append(warnings, [kind |-> "spot", url |-> s_url])
    /\ UNCHANGED <<node_pc, returned, rows_left>>
    /\ UNCHANGED node_frame

\* NodeSubZone with the try around the whole loop: a sub-zone that fails
\* ends the loop.
NodeSubZoneEndsLoop ==
    /\ node_pc = "running"
    /\ Top.si > Len(Top.spots_list)
    /\ Top.zi <= Len(Top.zones_list)
    /\ LET z_url == Top.zones_list[Top.zi]
       IN  /\ fetched' = Append(fetched, z_url)
           /\ LET Raised ==
                      /\ stack' = WithTop([Top EXCEPT
                                     !.zone_errors = @ \cup {Top.zi},
                                     !.zi = Len(Top.zones_list) + 1])
                      /\ warnings' = Append(warnings, [kind |-> "zone", url |-> z_url])
                      /\ UNCHANGED rows_left
              IN  \/ \E pg \in Pages(rows_left) :
                        IF ~SeasonsRaises(pg)
                        THEN /\ stack' = Append(stack, NewFrame(z_url, FALSE, pg, NextRow))
                             /\ rows_left' = rows_left - RowCount(pg.first_table)
                                                       - RowCount(pg.second_table)
                             /\ UNCHANGED warnings
                        ELSE Raised
                  \/ Raised
    /\ UNCHANGED <<node_pc, returned>>
    /\ UNCHANGED node_frame

\* NodeSubZone for a loop that walks zones_list from its last link to its
\* first.
NodeSubZoneLastFirst ==
    /\ node_pc = "running"
    /\ Top.si > Len(Top.spots_list)
    /\ Top.zi <= Len(Top.zones_list)
    /\ LET z_url == Top.zones_list[Len(Top.zones_list) - Top.zi + 1]
       IN  /\ fetched' = Append(fetched, z_url)
           /\ LET Raised ==
                      /\ stack' = WithTop([Top EXCEPT
                                     !.zone_errors = @ \cup {Top.zi},
                                     !.zi = @ + 1])
                      /\ warnings' = Append(warnings, [kind |-> "zone", url |-> z_url])
                      /\ UNCHANGED rows_left
              IN  \/ \E pg \in Pages(rows_left) :
                        IF ~SeasonsRaises(pg)
                        THEN /\ stack' = Append(stack, NewFrame(z_url, FALSE, pg, NextRow))
                             /\ rows_left' = rows_left - RowCount(pg.first_table)
                                                       - RowCount(pg.second_table)
                             /\ UNCHANGED warnings
                        ELSE Raised
                  \/ Raised
    /\ UNCHANGED <<node_pc, returned>>
    /\ UNCHANGED node_frame

\* Lines 650-659 and 532-634 of the call made: one turn of the loop over
\* zones_list, up to the point where the sub-zone's document has been read
\* or the call has raised into the except branch.
NodeSubZone ==
    /\ node_pc = "running"
    /\ Top.si > Len(Top.spots_list)
    /\ Top.zi <= Len(Top.zones_list)
    /\ LET z_url == Top.zones_list[Top.zi]
       IN  /\ fetched' = Append(fetched, z_url)
           /\ LET Raised ==
                      /\ stack' = WithTop([Top EXCEPT
                                     !.zone_errors = @ \cup {Top.zi},
                                     !.zi = @ + 1])
                      /\ warnings' = Append(warnings, [kind |-> "zone", url |-> z_url])
                      /\ UNCHANGED rows_left
              IN  \/ \E pg \in Pages(rows_left) :
                        IF ~SeasonsRaises(pg)
                        THEN /\ stack' = Append(stack, NewFrame(z_url, FALSE, pg, NextRow))
                             /\ rows_left' = rows_left - RowCount(pg.first_table)
                                                       - RowCount(pg.second_table)
                             /\ UNCHANGED warnings
                        ELSE Raised
                  \/ Raised
    /\ UNCHANGED <<node_pc, returned>>
    /\ UNCHANGED node_frame

\* Line 661, and lines 655-657 of the caller: return zone, which the caller
\* appends to its sub_zones.
NodeReturn ==
    /\ node_pc = "running"
    /\ Top.si > Len(Top.spots_list)
    /\ Top.zi > Len(Top.zones_list)
    /\ IF Len(stack) = 1
       THEN /\ returned' = Top
            /\ node_pc' = "returned"
            /\ stack' = <<>>
       ELSE LET caller == stack[Len(stack) - 1]
            IN  /\ stack' = [SubSeq(stack, 1, Len(stack) - 1) EXCEPT
                              ![Len(stack) - 1] =
                                  [caller EXCEPT !.zone.sub_zones = Append(@, Top.zone),
                                                 !.zi = @ + 1]]
                /\ UNCHANGED <<returned, node_pc>>
    /\ UNCHANGED <<rows_left, fetched, warnings>>
    /\ UNCHANGED node_frame

NodeNext == NodeStart \/ NodeSpot \/ NodeSubZone \/ NodeReturn

(***************************************************************************)
(* Properties of parse_country_or_zone_page                                 *)
(***************************************************************************)

\* The links among the first n of a list whose turn did not end in the
\* except branch, in the order of the list.
Survivors(links, n, errors) ==
    LET idx == SelectSeq([i \in 1..n |-> i], LAMBDA i : i \notin errors)
    IN  [k \in 1..Len(idx) |-> links[idx[k]]]

\* The children of a call are exactly the links it has tried and not failed
\* on, in the order of discovery.
ChildrenAreSurvivors(f) ==
    /\ [k \in 1..Len(f.zone.surf_spots) |-> f.zone.surf_spots[k].name]
         = Survivors(f.spots_list, f.si - 1, f.spot_errors)
    /\ [k \in 1..Len(f.zone.sub_zones) |-> f.zone.sub_zones[k].url]
         = Survivors(f.zones_list, f.zi - 1, f.zone_errors)

\* C2: whichever children fail, a call that has read its own document goes
\* on to return its Zone (it is never unwound by a child's failure), each
\* failure is printed as a warning, and surf_spots and sub_zones hold exactly
\* the children that did not fail, in discovery order.
C2_FailureIsolation ==
    /\ \A d \in 1..Len(stack) : ChildrenAreSurvivors(stack[d])
    /\ node_pc = "returned" =>
          /\ ChildrenAreSurvivors(returned)
          /\ returned.si = Len(returned.spots_list) + 1
          /\ returned.zi = Len(returned.zones_list) + 1
    /\ node_pc = "raised" => fetched = <<RootUrl>> /\ warnings = <<>>
    /\ node_pc = "running" => stack # <<>>
    /\ Len(warnings) >= Cardinality(UNION {stack[d].spot_errors : d \in 1..Len(stack)})
                        + Cardinality(UNION {stack[d].zone_errors : d \in 1..Len(stack)})
    /\ node_pc = "returned" =>
          Len(warnings) >= Cardinality(returned.spot_errors)
                           + Cardinality(returned.zone_errors)

\* C2's case: a call with three sub-zone links of which the second failed
\* has returned a Zone with the first and the third, and one warning.
C2_Witness ==
    /\ node_pc = "returned"
    /\ Len(returned.zones_list) = 3
    /\ returned.zone_errors = {2}
    /\ [k \in 1..2 |-> returned.zone.sub_zones[k].url]
         = <<returned.zones_list[1], returned.zones_list[3]>>
    /\ warnings = <<[kind |-> "zone", url |-> returned.zones_list[2]]>>

\* C17: no document is fetched twice, and no call of
\* parse_country_or_zone_page is made for a URL that a call still running is
\* parsing.
C17_VisitedOnce ==
    /\ \A i, j \in 1..Len(fetched) : i < j => fetched[i] # fetched[j]
    /\ \A d, e \in 1..Len(stack) : d < e => stack[d].zone.url # stack[e].zone.url

\* The link the call f follows next: its spots in the order of the
\* document, then its zones in the order of the document.
NextLink(f) ==
    IF f.si <= Len(f.spots_list) THEN f.spots_list[f.si] ELSE f.zones_list[f.zi]

HasNextLink(f) == f.si <= Len(f.spots_list) \/ f.zi <= Len(f.zones_list)

\* Every call but the innermost one is through with its spots and stands at
\* the sub-zone that the call above it is parsing.
C18_Waiting ==
    \A d \in 1..(Len(stack) - 1) :
        /\ stack[d].si > Len(stack[d].spots_list)
        /\ stack[d].zi <= Len(stack[d].zones_list)
        /\ stack[d + 1].zone.url = stack[d].zones_list[stack[d].zi]

\* One step of a running traversal: a document is fetched only for the
\* innermost call, and it is the next link of that call; a call that begins
\* has its lists of links and has followed none of them; the calls below the
\* innermost one do not move, except that a call moves to its next sub-zone,
\* with nothing fetched, in the step in which the call above it ends.
C18_Step ==
    stack # <<>> =>
        /\ fetched' # fetched =>
              /\ HasNextLink(Top)
              /\ fetched' = Append(fetched, NextLink(Top))
        /\ Len(stack') \in {Len(stack) - 1, Len(stack), Len(stack) + 1}
        /\ \A d \in 1..(Len(stack) - 1) :
              d < Len(stack') => stack'[d] = stack[d]
        /\ Len(stack') >= Len(stack) =>
              LET f == stack'[Len(stack)]
              IN  /\ f.spots_list = Top.spots_list /\ f.zones_list = Top.zones_list
                  /\ \/ f.si = Top.si + 1 /\ f.zi = Top.zi /\ fetched' # fetched
                     \/ f.si = Top.si /\ f.zi = Top.zi + 1 /\ fetched' # fetched
                     \/ f.si = Top.si /\ f.zi = Top.zi
        /\ Len(stack') = Len(stack) + 1 =>
              /\ Top.si > Len(Top.spots_list)
              /\ fetched' # fetched
              /\ stack'[Len(stack')].zone.url = Top.zones_list[Top.zi]
              /\ stack'[Len(stack')].si = 1 /\ stack'[Len(stack')].zi = 1
              /\ stack'[Len(stack)] = Top
        /\ Len(stack') = Len(stack) - 1 =>
              /\ fetched' = fetched
              /\ ~HasNextLink(Top)
              /\ Len(stack) > 1 =>
                    /\ stack'[Len(stack')].zi = stack[Len(stack')].zi + 1
                    /\ stack'[Len(stack')].si = stack[Len(stack')].si

\* C18: the traversal is depth-first and sequential: a document is fetched
\* only for the innermost call, after that call has listed its links, and
\* the links are followed in order, a sub-zone's whole subtree being parsed
\* before the call that lists it moves to the next sub-zone.
C18_DepthFirst == []C18_Waiting /\ [][C18_Step]_vars

\* The first sub-zone of the country has been parsed, a spot with it, and the
\* second sub-zone has just been fetched.
C18_Witness ==
    /\ Len(stack) = 2
    /\ stack[1].zi = 2
    /\ Len(stack[1].zone.sub_zones) = 1
    /\ stack[1].zone.sub_zones[1].surf_spots # <<>>
    /\ fetched[Len(fetched)] = stack[1].zones_list[2]
    /\ stack[1].zones_list[1] # stack[1].zones_list[2]

\* The country document of C5: one link under "Zones", one link under
\* "Surf Spots", and both pages parse.
OneZoneOneSpot ==
    /\ node_pc = "returned"
    /\ returned.is_country
    /\ returned.zones_list = <<Href(1, 1)>>
    /\ returned.spots_list = <<Href(1, 2)>>
    /\ warnings = <<>>

\* C5 as claimed: the country has its one child zone and no surf spot of its
\* own.
C5_AsClaimed ==
    OneZoneOneSpot =>
        /\ Len(returned.zone.sub_zones) = 1
        /\ returned.zone.surf_spots = <<>>

\* C5 amended: the country has its one child zone, and the surf spot linked
\* from the country document is in the country's own surf_spots.
C5_SpotStaysWithCountry ==
    OneZoneOneSpot =>
        /\ Len(returned.zone.sub_zones) = 1
        /\ returned.zone.sub_zones[1].url = Href(1, 1)
        /\ returned.zone.surf_spots = <<SpotOf(Href(1, 2))>>

\* C5's case: such a country document has been parsed.
C5_Witness ==
    /\ OneZoneOneSpot
    /\ Len(returned.zone.sub_zones) = 1
    /\ Len(returned.zone.surf_spots) = 1

(***************************************************************************)
(* parse_homepage and main                                                  *)
(***************************************************************************)

\* The homepage holds at most this many continent headings.
MaxGroups == 2

\* The tables of the homepage hold at most this many country links.
MaxCountries == 3

\* Line 972: the number of surf spots a sampled zone keeps.
SampleSpots == 5

\* A dict, in insertion order: a sequence of [key, value] with distinct keys.
DictKeys(d) == [i \in 1..Len(d) |-> d[i].key]

DictHas(d, k) == \E i \in 1..Len(d) : d[i].key = k

DictGet(d, k) == d[CHOOSE i \in 1..Len(d) : d[i].key = k].value

\* d[k] = v: a key already there keeps its place.
DictPut(d, k, v) ==
    IF DictHas(d, k)
    THEN [i \in 1..Len(d) |-> IF d[i].key = k THEN [key |-> k, value |-> v] ELSE d[i]]
    ELSE Append(d, [key |-> k, value |-> v])

RECURSIVE Decimal(_)
\* str(n) of a natural number
Decimal(n) ==
    IF n < 10 THEN CharAt(DigitChars, n + 1)
    ELSE Decimal(n \div 10) \o CharAt(DigitChars, (n % 10) + 1)

\* The characters [A-Za-z0-9_] matches.
WordChars == UpperSet \cup LowerSet \cup DigitSet \cup {"_"}

RECURSIVE Sanitize(_)
\* re.sub(r"[^A-Za-z0-9_]+", "_", name): every maximal run of other
\* characters becomes one underscore.
Sanitize(name) ==
    IF name = "" THEN ""
    ELSE IF Head(name) \in WordChars THEN Head(name) \o Sanitize(Tail(name))
    ELSE IF Len(name) > 1 /\ CharAt(name, 2) \notin WordChars
         THEN Sanitize(Tail(name))
         ELSE "_" \o Sanitize(Tail(name))

\* s[:n]
Prefix(s, n) == SubSeq(s, 1, IF Len(s) < n THEN Len(s) ELSE n)

\* The text of the continent headings, as the document wrote it.
RawContinents == {" Africa\n", "Asia"}

\* The <h2> elements a homepage can hold when n more links may be written:
\* the heading's text, whether a table of its own follows it, the number of
\* country links of that table.
H2s(n) ==
    { h \in [name : RawContinents, has_table : BOOLEAN, links : 0..n] :
        h.has_table \/ h.links = 0 }

RECURSIVE HomepagesUpTo(_, _)
\* The homepages of at most g headings and n country links.
HomepagesUpTo(g, n) ==
    {<<>>} \cup
    (IF g = 0 THEN {}
     ELSE UNION { { <<h>> \o rest : rest \in HomepagesUpTo(g - 1, n - h.links) } :
                  h \in H2s(n) })

Homepages == HomepagesUpTo(MaxGroups, MaxCountries)

RECURSIVE LinksBefore(_, _)
\* The number of country links of the tables before heading j.
LinksBefore(doc, j) ==
    IF j = 1 THEN 0 ELSE LinksBefore(doc, j - 1) + doc[j - 1].links

\* The title of the page at a URL of the site.
PageTitle(url) == "Zone " \o Decimal(url)

\* Lines 682-686: the (c_name, c_url) of the links of table j; the k-th link
\* of the homepage leads to the page of URL k.
CountryLinks(doc, j) ==
    [k \in 1..doc[j].links |->
        [name |-> PageTitle(LinksBefore(doc, j) + k), url |-> LinksBefore(doc, j) + k]]

\* Line 680: h2.find_next("table"): the first table after heading i in the
\* document, which is a later heading's table when heading i has none.
NextTable(doc, i) ==
    IF \E j \in i..Len(doc) : doc[j].has_table
    THEN CHOOSE j \in i..Len(doc) :
             /\ doc[j].has_table
             /\ \A k \in i..(j - 1) : ~doc[k].has_table
    ELSE 0

RECURSIVE ParseHeadings(_, _)
\* Lines 675-687: the dict after the first n headings.
ParseHeadings(doc, n) ==
    IF n = 0 THEN <<>>
    ELSE DictPut(ParseHeadings(doc, n - 1), clean_text(doc[n].name),
                 IF NextTable(doc, n) = 0 THEN <<>>
                 ELSE CountryLinks(doc, NextTable(doc, n)))

\* parse_homepage on a fetched document
parse_homepage(doc) == ParseHeadings(doc, Len(doc))

\* Zone(name, url, surf_spots, sub_zones)
Zone(url, spots, zones) ==
    [name |-> PageTitle(url), url |-> url, surf_spots |-> spots, sub_zones |-> zones]

\* n surf spots
Spots(n) == [i \in 1..n |-> SpotOf(i)]

\* The URL of the k-th zone a page links to.
ZoneUrl(url, k) == 10 * url + k

\* What parse_country_or_zone_page(country_url, is_country=True) can return:
\* a country with no zone and more spots than a sample keeps, one with a
\* zone of that many spots that has a sub-zone of its own, one with a spot
\* of its own and two zones, the first of them with no spot.
CountryZones(url) ==
    { Zone(url, Spots(SampleSpots + 1), <<>>),
      Zone(url, <<>>,
           << Zone(ZoneUrl(url, 1), Spots(SampleSpots + 1),
                   <<Zone(ZoneUrl(ZoneUrl(url, 1), 1), Spots(1), <<>>)>>) >>),
      Zone(url, Spots(1), << Zone(ZoneUrl(url, 1), <<>>, <<>>),
                             Zone(ZoneUrl(url, 2), Spots(SampleSpots + 1), <<>>) >>) }

\* Truncated for a main that cuts the list whether it samples or not.
TruncatedAlways(z, smp) ==
    IF Len(z.surf_spots) > SampleSpots
    THEN [z EXCEPT !.surf_spots = SubSeq(@, 1, SampleSpots)]
    ELSE z

\* Lines 972-973 and 979-980: a sampled zone keeps its first five spots.
Truncated(z, smp) ==
    IF smp /\ Len(z.surf_spots) > SampleSpots
    THEN [z EXCEPT !.surf_spots = SubSeq(@, 1, SampleSpots)]
    ELSE z

\* Line 969: zones_to_process, as the number of zones from the front
ZonesToProcess(z, smp) ==
    IF smp /\ Len(z.sub_zones) > 1 THEN 1 ELSE Len(z.sub_zones)

\* Lines 966-982: the country's Zone after the CSV branch of the try block
\* has run on it; the object is the one continents_data holds.
AfterCsv(z, smp) ==
    IF z.sub_zones # <<>>
    THEN [z EXCEPT !.sub_zones =
             [k \in 1..Len(z.sub_zones) |->
                 IF k <= ZonesToProcess(z, smp) THEN Truncated(z.sub_zones[k], smp)
                 ELSE z.sub_zones[k]]]
    ELSE Truncated(z, smp)

\* Lines 966-982: the zones to_csv is called on, in order
CsvZones(z, smp) ==
    IF z.sub_zones # <<>>
    THEN SubSeq(AfterCsv(z, smp).sub_zones, 1, ZonesToProcess(z, smp))
    ELSE <<AfterCsv(z, smp)>>

\* Lines 494-496: the path of the file to_csv writes, within the directory
CsvPath(z) == Prefix(Sanitize(z.name), 50) \o ".csv"

RECURSIVE WriteCsvs(_, _)
\* Zone.to_csv on each of zs in turn: the file is opened for writing, so an
\* earlier file of the same path is replaced.
WriteCsvs(files, zs) ==
    IF zs = <<>> THEN files
    ELSE WriteCsvs(DictPut(files, CsvPath(Head(zs)), Len(Head(zs).surf_spots)), Tail(zs))

\* Line 960: country_iter
CountryIter(countries, smp) ==
    IF smp THEN Prefix(countries, 1) ELSE countries

MainInit ==
    /\ sample \in BOOLEAN
    /\ root_fetch = "pending"
    /\ continents_map = <<>>
    /\ continents_data = <<>>
    /\ gi = 1
    /\ ci = 1
    /\ processing = <<>>
    /\ main_errors = <<>>
    /\ parsed = <<>>
    /\ csv_files = <<>>
    /\ excel_built = FALSE
    /\ main_pc = "start"

\* main is not running.
MainIdle ==
    /\ sample = FALSE
    /\ root_fetch = "pending"
    /\ continents_map = <<>>
    /\ continents_data = <<>>
    /\ gi = 1
    /\ ci = 1
    /\ processing = <<>>
    /\ main_errors = <<>>
    /\ parsed = <<>>
    /\ csv_files = <<>>
    /\ excel_built = FALSE
    /\ main_pc = "idle"

\* MainHomepage for a main that goes on with no continent when the homepage
\* cannot be fetched.
MainHomepageSwallows ==
    /\ main_pc = "start"
    /\ \/ /\ root_fetch' = "failed"
          /\ continents_map' = <<>>
       \/ /\ root_fetch' = "ok"
          /\ \E doc \in Homepages : continents_map' = parse_homepage(doc)
    /\ main_pc' = "continents"
    /\ UNCHANGED <<sample, continents_data, gi, ci, processing, main_errors,
                   parsed, csv_files, excel_built>>
    /\ UNCHANGED main_frame

\* Lines 949-952: parse_homepage; the exception fetch raises leaves main.
MainHomepage ==
    /\ main_pc = "start"
    /\ \/ /\ root_fetch' = "failed"
          /\ main_pc' = "aborted"
          /\ UNCHANGED continents_map
       \/ /\ root_fetch' = "ok"
          /\ \E doc \in Homepages : continents_map' = parse_homepage(doc)
          /\ main_pc' = "continents"
    /\ UNCHANGED <<sample, continents_data, gi, ci, processing, main_errors,
                   parsed, csv_files, excel_built>>
    /\ UNCHANGED main_frame

\* Lines 957-960: one turn of the loop over the continents begins.
MainContinent ==
    /\ main_pc = "continents"
    /\ gi <= Len(continents_map)
    /\ continents_data' = DictPut(continents_data, continents_map[gi].key, <<>>)
    /\ ci' = 1
    /\ main_pc' = "countries"
    /\ UNCHANGED <<sample, root_fetch, continents_map, gi, processing, main_errors,
                   parsed, csv_files, excel_built>>
    /\ UNCHANGED main_frame

\* The continent and the countries the loops are at.
Continent == continents_map[gi].key

country_iter == CountryIter(continents_map[gi].value, sample)

\* MainCountry for a main with no try block around the country.
MainCountryPropagates ==
    /\ main_pc = "countries"
    /\ ci <= Len(country_iter)
    /\ LET country == country_iter[ci]
       IN  /\ processing' = Append(processing, [continent |-> Continent, url |-> country.url])
           /\ \/ /\ main_pc' = "aborted"
                 /\ UNCHANGED <<continents_data, parsed, csv_files, ci>>
              \/ \E country_zone \in CountryZones(country.url) :
                    /\ continents_data' =
                           DictPut(continents_data, Continent,
                                   DictPut(DictGet(continents_data, Continent),
                                           country.name, AfterCsv(country_zone, sample)))
                    /\ parsed' = Append(parsed, [continent |-> Continent,
                                                 name |-> country.name,
                                                 zone |-> country_zone])
                    /\ csv_files' = WriteCsvs(csv_files, CsvZones(country_zone, sample))
                    /\ ci' = ci + 1
                    /\ UNCHANGED main_pc
    /\ UNCHANGED <<sample, root_fetch, continents_map, gi, main_errors, excel_built>>
    /\ UNCHANGED main_frame

\* Lines 961-984: one turn of the loop over country_iter, the try block
\* and its except branch.
MainCountry ==
    /\ main_pc = "countries"
    /\ ci <= Len(country_iter)
    /\ LET country == country_iter[ci]
       IN  /\ processing' = Append(processing, [continent |-> Continent, url |-> country.url])
           /\ \/ /\ main_errors' = Append(main_errors,
                                          [continent |-> Continent, name |-> country.name])
                 /\ UNCHANGED <<continents_data, parsed, csv_files>>
              \/ \E country_zone \in CountryZones(country.url) :
                    /\ continents_data' =
                           DictPut(continents_data, Continent,
                                   DictPut(DictGet(continents_data, Continent),
                                           country.name, AfterCsv(country_zone, sample)))
                    /\ parsed' = Append(parsed, [continent |-> Continent,
                                                 name |-> country.name,
                                                 zone |-> country_zone])
                    /\ csv_files' = WriteCsvs(csv_files, CsvZones(country_zone, sample))
                    /\ UNCHANGED main_errors
    /\ ci' = ci + 1
    /\ UNCHANGED <<sample, root_fetch, continents_map, gi, excel_built, main_pc>>
    /\ UNCHANGED main_frame

\* Line 961: country_iter is exhausted.
MainContinentEnd ==
    /\ main_pc = "countries"
    /\ ci > Len(country_iter)
    /\ gi' = gi + 1
    /\ main_pc' = "continents"
    /\ UNCHANGED <<sample, root_fetch, continents_map, continents_data, ci, processing,
                   main_errors, parsed, csv_files, excel_built>>
    /\ UNCHANGED main_frame

\* Lines 986-989: the call of build_excel_workbook on the forest
MainBuildExcel ==
    /\ main_pc = "continents"
    /\ gi > Len(continents_map)
    /\ excel_built' = TRUE
    /\ main_pc' = "done"
    /\ UNCHANGED <<sample, root_fetch, continents_map, continents_data, gi, ci,
                   processing, main_errors, parsed, csv_files>>
    /\ UNCHANGED main_frame

MainNext ==
    MainHomepage \/ MainContinent \/ MainCountry \/ MainContinentEnd \/ MainBuildExcel

(***************************************************************************)
(* Properties of main                                                       *)
(***************************************************************************)

RECURSIVE SelectedFrom(_, _, _)
\* The countries main is to attempt, in order: country_iter of each of the
\* continents of m from the g-th on.
SelectedFrom(m, g, smp) ==
    IF g > Len(m) THEN <<>>
    ELSE LET it == CountryIter(m[g].value, smp)
         IN  [k \in 1..Len(it) |-> [continent |-> m[g].key, url |-> it[k].url]]
             \o SelectedFrom(m, g + 1, smp)

\* The country of `continent` named `name` has failed.
Failed(continent, name) ==
    \E e \in 1..Len(main_errors) :
        main_errors[e] = [continent |-> continent, name |-> name]

\* C3: a country whose parsing fails does not end the run.  Once a country
\* has been attempted main is never left by an exception and, until it is
\* done, has a next step; when it is done every country of country_iter of
\* every continent has been attempted, in order, whatever failed before it,
\* the forest holds the countries that did not fail and none that did, and
\* build_excel_workbook has been called.
C3_CountryFailureIsolated ==
    /\ processing # <<>> => main_pc \in {"countries", "continents", "done"}
    /\ main_pc \in {"countries", "continents"} => ENABLED MainNext
    /\ main_pc = "done" =>
          /\ processing = SelectedFrom(continents_map, 1, sample)
          /\ excel_built
          /\ DictKeys(continents_data) = DictKeys(continents_map)
          /\ \A g \in 1..Len(continents_map) :
                LET it == CountryIter(continents_map[g].value, sample)
                    forest == continents_data[g].value
                IN  /\ \A k \in 1..Len(it) :
                           Failed(continents_map[g].key, it[k].name)
                               <=> ~DictHas(forest, it[k].name)
                    /\ \A f \in 1..Len(forest) :
                           \E k \in 1..Len(it) : it[k].name = forest[f].key

\* A full run over two continents: the first country of the first continent
\* failed, the second was parsed, and so was the country of the second
\* continent.
C3_Witness ==
    /\ main_pc = "done"
    /\ ~sample
    /\ Len(continents_map) = 2
    /\ Len(continents_map[1].value) = 2
    /\ Len(continents_map[2].value) = 1
    /\ Len(processing) = 3
    /\ main_errors = <<[continent |-> continents_map[1].key,
                        name |-> continents_map[1].value[1].name]>>
    /\ DictKeys(continents_data[1].value) = <<continents_map[1].value[2].name>>
    /\ Len(continents_data[2].value) = 1
    /\ excel_built

\* C4: main is left by an exception exactly when the fetch of the homepage
\* failed, and then no country has been attempted, the forest is empty, no
\* CSV file is written and build_excel_workbook is not called; no failure of
\* a later page leaves main.
C4_RootFailureAborts ==
    /\ root_fetch = "failed" =>
          /\ main_pc = "aborted"
          /\ processing = <<>>
          /\ continents_data = <<>>
          /\ csv_files = <<>>
          /\ ~excel_built
    /\ main_pc = "aborted" => root_fetch = "failed"

\* The homepage could not be fetched and main has been left.
C4_Witness ==
    /\ root_fetch = "failed"
    /\ main_pc = "aborted"

RECURSIVE TreeNodes(_, _)
\* The nodes of the tree z, each with its path, z's own being `path`.
TreeNodes(z, path) ==
    {[path |-> path, node |-> z]}
    \cup UNION { TreeNodes(z.sub_zones[i], Append(path, i)) : i \in 1..Len(z.sub_zones) }

\* The nodes of the forest: the path of each starts with the indices of its
\* continent and its country.
ForestNodes ==
    UNION { UNION { TreeNodes(continents_data[g].value[c].value, <<g, c>>) :
                    c \in 1..Len(continents_data[g].value) } :
            g \in 1..Len(continents_data) }

\* C13: a sampled run attempts the first country of each continent only;
\* of what was parsed for a country, one zone at most and five spots a node
\* at most were fetched; and no node of the forest handed to the outputs
\* holds more than five spots.
C13_SampleLimits ==
    (sample /\ main_pc = "done") =>
        /\ processing = SelectedFrom(continents_map, 1, TRUE)
        /\ \A g \in 1..Len(continents_map) : Len(CountryIter(continents_map[g].value, TRUE)) <= 1
        /\ \A i \in 1..Len(parsed) :
              /\ Len(parsed[i].zone.sub_zones) <= 1
              /\ \A x \in TreeNodes(parsed[i].zone, <<>>) :
                    Len(x.node.surf_spots) <= SampleSpots
        /\ \A x \in ForestNodes : Len(x.node.surf_spots) <= SampleSpots

\* C14: when the run is over there is one CSV file for each node of the
\* forest with no sub-zones, at any depth, none for any other node, and no
\* two such nodes share a path.
C14_OneCsvPerLeaf ==
    main_pc = "done" =>
        LET leaves == {x \in ForestNodes : x.node.sub_zones = <<>>}
        IN  /\ \A x \in leaves : DictHas(csv_files, CsvPath(x.node))
            /\ \A f \in 1..Len(csv_files) :
                  \E x \in leaves : CsvPath(x.node) = csv_files[f].key
            /\ \A x, y \in leaves : x.path # y.path => CsvPath(x.node) # CsvPath(y.node)

\* The node the forest holds for the i-th country parsed.
ForestEntry(i) ==
    DictGet(DictGet(continents_data, parsed[i].continent), parsed[i].name)

\* z with its surf_spots cut to the first five.
FirstFive(z) ==
    [z EXCEPT !.surf_spots = SubSeq(@, 1, IF Len(@) > 5 THEN 5 ELSE Len(@))]

\* C16 as the claim states it: the forest holds every country as
\* parse_country_or_zone_page returned it.
C16_AsClaimed ==
    \A i \in 1..Len(parsed) : ForestEntry(i) = parsed[i].zone

\* C16, amended: in a full run the forest holds every country as it was
\* returned; in a sampled run the one change is the surf_spots list of the
\* country's first zone, or of the country itself when it has no zone, cut
\* to its first five entries.
C16_OnlySamplingCuts ==
    \A i \in 1..Len(parsed) :
        LET orig == parsed[i].zone
            now == ForestEntry(i)
        IN  IF ~sample THEN now = orig
            ELSE IF orig.sub_zones = <<>> THEN now = FirstFive(orig)
            ELSE now = [orig EXCEPT !.sub_zones[1] = FirstFive(@)]

\* A sampled run is over: a country was returned with a first zone of six
\* spots, and the forest holds that zone with five.
C16_Witness ==
    /\ main_pc = "done"
    /\ sample
    /\ \E i \in 1..Len(parsed) :
          /\ parsed[i].zone.sub_zones # <<>>
          /\ Len(parsed[i].zone.sub_zones[1].surf_spots) = 6
          /\ Len(ForestEntry(i).sub_zones[1].surf_spots) = 5
          /\ ForestEntry(i).sub_zones[1].sub_zones = parsed[i].zone.sub_zones[1].sub_zones

(***************************************************************************)
(* build_excel_workbook                                                     *)
(***************************************************************************)

\* The forest handed to build_excel_workbook holds at most this many nodes.
MaxNodes == 4

\* The names of the zone pages of the forest: one equal to a reserved sheet
\* name, two that differ in an accent and a separator.
ZoneNames == {"Zones", "Côte Sud", "Cote-Sud"}

\* The names of the country pages: one equal to a reserved sheet name, one
\* longer than a sheet name may be.
CountryNames == {"Country", "Playa de los Muertos - Punta Norte"}

\* A node of the forest
BookZone(name, zones) ==
    [name |-> name, url |-> 0, surf_spots |-> Spots(1), sub_zones |-> zones]

RECURSIVE Size(_)
\* The number of nodes of a list of trees.
Size(zones) ==
    IF zones = <<>> THEN 0
    ELSE 1 + Size(Head(zones).sub_zones) + Size(Tail(zones))

RECURSIVE ZoneLists(_)
\* The lists of trees of at most n nodes.
ZoneLists(n) ==
    {<<>>} \cup
    (IF n = 0 THEN {}
     ELSE UNION { { <<BookZone(nm, kids)>> \o rest :
                        rest \in ZoneLists(n - 1 - Size(kids)), nm \in ZoneNames } :
                  kids \in ZoneLists(n - 1) })

RECURSIVE CountryLists(_)
\* The lists of countries of at most n nodes.
CountryLists(n) ==
    {<<>>} \cup
    (IF n = 0 THEN {}
     ELSE UNION { { <<BookZone(nm, kids)>> \o rest :
                        rest \in CountryLists(n - 1 - Size(kids)), nm \in CountryNames } :
                  kids \in ZoneLists(n - 1) })

\* continents_data[continent]: the countries under the names the homepage
\* gives them, the k-th of them "Zone k".
CountryDict(zones) ==
    [k \in 1..Len(zones) |-> [key |-> PageTitle(k), value |-> zones[k]]]

\* The forests build_excel_workbook is called on: a continent holds the
\* countries, but for the last one when a second continent holds that.
BookForests ==
    UNION { { << [key |-> "Africa", value |-> CountryDict(SubSeq(zs, 1, k))],
                 [key |-> "Asia", value |-> CountryDict(SubSeq(zs, k + 1, Len(zs)))] >> :
                k \in {Len(zs)} \cup ({Len(zs) - 1} \cap Nat) } :
            zs \in CountryLists(MaxNodes) }

\* The countries of the wide continent and the zones of each of them: more
\* nodes than make the counter of a sheet name reach three digits.
WideCountries == 11

WideZones == 10

\* The name the zones of the wide continent share: one longer than a sheet
\* name may be, or a short one that is a reserved sheet name.
WideNames == {"Playa de los Muertos - Punta Norte", "Zones"}

\* A continent whose countries have zones that all carry the same name, the
\* first zone of each country with a sub-zone of that name.
WideForest(name) ==
    << [key |-> "Africa",
        value |-> CountryDict([c \in 1..WideCountries |->
                     BookZone("Country",
                         [k \in 1..WideZones |->
                             BookZone(name, IF k = 1 THEN <<BookZone(name, <<>>)>>
                                                     ELSE <<>>)])])] >>

\* countries, of the continent the loop is at
Countries == book_data[bk].value

RECURSIVE ZoneAt(_, _)
\* The node reached from z through the sub_zones indices of path.
ZoneAt(z, path) ==
    IF path = <<>> THEN z ELSE ZoneAt(z.sub_zones[Head(path)], Tail(path))

\* The node of a continent's countries at a path: the index of the country,
\* then the indices through sub_zones.
NodeAt(countries, path) == ZoneAt(countries[Head(path)].value, Tail(path))

RECURSIVE Flatten(_)
\* The concatenation of a sequence of sequences.
Flatten(ss) == IF ss = <<>> THEN <<>> ELSE Head(ss) \o Flatten(Tail(ss))

\* The indices of a list, in order.
Indices(s) == [i \in 1..Len(s) |-> i]

\* Lines 817-834: nested_zones: the zones of the countries that have
\* sub-zones of their own, as paths.
NestedZones(countries) ==
    Flatten([c \in 1..Len(countries) |->
        LET zs == countries[c].value.sub_zones
        IN  [k \in 1..Len(SelectSeq(Indices(zs), LAMBDA i : zs[i].sub_zones # <<>>)) |->
                <<c, SelectSeq(Indices(zs), LAMBDA i : zs[i].sub_zones # <<>>)[k]>>]])

\* Lines 866-878: leaf_zones of the country at index c, as paths.
LeafZonesOf(countries, c) ==
    LET country_zone == countries[c].value
    IN  IF country_zone.sub_zones = <<>> THEN << <<c>> >>
        ELSE Flatten([i \in 1..Len(country_zone.sub_zones) |->
                LET z_obj == country_zone.sub_zones[i]
                    leaves == SelectSeq(Indices(z_obj.sub_zones),
                                        LAMBDA j : z_obj.sub_zones[j].sub_zones = <<>>)
                IN  IF z_obj.sub_zones = <<>> THEN << <<c, i>> >>
                    ELSE [k \in 1..Len(leaves) |-> <<c, i, leaves[k]>>]])

\* Line 866: the leaf zones of all the countries, in the order of the loop.
LeafZones(countries) ==
    Flatten([c \in 1..Len(countries) |-> LeafZonesOf(countries, c)])

RECURSIVE TrySuffix(_, _, _)
\* Lines 842-844 and 884-886: the while loop, at a suffix.
TrySuffix(base, suffix, created) ==
    LET sheet_name == Prefix(base, 28) \o "_" \o Decimal(suffix)
    IN  IF sheet_name \in created THEN TrySuffix(base, suffix + 1, created)
        ELSE sheet_name

\* UniqueSheetName for a builder that does not look at created_sheets.
UniqueSheetNameUnchecked(name, created) == Prefix(Sanitize(name), 31)

\* UniqueSheetName for a builder that appends the first suffix and does not
\* look again.
UniqueSheetNameOnce(name, created) ==
    LET base == Prefix(Sanitize(name), 31)
    IN  IF base \in created THEN Prefix(base, 28) \o "_1" ELSE base

\* Lines 838-844 and 880-886: the sheet name of a node.
UniqueSheetName(name, created) ==
    LET base == Prefix(Sanitize(name), 31)
    IN  IF base \in created THEN TrySuffix(base, 1, created) ELSE base

\* Lines 890-897: spot_headers, row 0 of a surf-spot sheet.
spot_headers ==
    << "zone", "Surf Spots (count)", "Distance", "Walk", "Easy to find?",
       "Public access?", "Special access", "Wave quality", "Experience",
       "Frequency", "Type", "Direction", "Bottom", "Power", "Normal length",
       "Good day length", "Good swell direction", "Good wind direction",
       "Good swell direction", "Best tide position", "Best tide movement",
       "Additional Information", "Latitude", "Longitude" >>

\* Lines 903-926: what the row of a spot holds in columns 0 to 23: the name
\* of the zone, then these attributes of the spot.
SpotRowAttrs ==
    << "zone_name", "name", "distance", "walk", "easy_to_find", "public_access",
       "special_access", "wave_quality", "experience", "frequency", "type",
       "direction", "bottom", "power", "normal_length", "good_day_length",
       "good_swell_direction", "good_wind_direction", "swell_size",
       "best_tide_position", "best_tide_movement", "additional_information",
       "latitude", "longitude" >>

\* Lines 499-507: the header row of Zone.to_csv.
CsvHeader ==
    << "surf spot name", "Distance", "Walk", "Easy to find?",
       "Public access?", "Special access", "Wave quality", "Experience",
       "Frequency", "Type", "Direction", "Bottom", "Power",
       "Normal length", "Good day length", "Good swell direction",
       "Good wind direction", "Swell size", "Best tide position",
       "Best tide movement", "Additional Information", "Latitude", "Longitude" >>

\* Lines 258-284: the attributes Spot.to_row lists, in order.
ToRowAttrs ==
    << "name", "distance", "walk", "easy_to_find", "public_access",
       "special_access", "wave_quality", "experience", "frequency", "type",
       "direction", "bottom", "power", "normal_length", "good_day_length",
       "good_swell_direction", "good_wind_direction", "swell_size",
       "best_tide_position", "best_tide_movement", "additional_information",
       "latitude", "longitude" >>

\* The rows of a sheet that lists the sub-zones of a node under a label.
ChildRows(label, zone) ==
    [k \in 1..Len(zone.sub_zones) |->
        [parent |-> label, name |-> zone.sub_zones[k].name,
         surf_spots |-> Len(zone.sub_zones[k].surf_spots),
         sub_zones |-> Len(zone.sub_zones[k].sub_zones)]]

BookInit ==
    /\ book_data \in BookForests
    /\ bk = 1
    /\ created_sheets = {}
    /\ sheets = <<>>
    /\ ni = 1
    /\ li = 1
    /\ workbooks = <<>>
    /\ book_pc = "workbook"

\* build_excel_workbook is called on the wide continent.
BookWideInit ==
    /\ book_data \in {WideForest(name) : name \in WideNames}
    /\ bk = 1
    /\ created_sheets = {}
    /\ sheets = <<>>
    /\ ni = 1
    /\ li = 1
    /\ workbooks = <<>>
    /\ book_pc = "workbook"

\* build_excel_workbook is not running.
BookIdle ==
    /\ book_data = <<>>
    /\ bk = 1
    /\ created_sheets = {}
    /\ sheets = <<>>
    /\ ni = 1
    /\ li = 1
    /\ workbooks = <<>>
    /\ book_pc = "idle"

\* Lines 773-798: a continent's workbook is created and its "Country" sheet
\* written.
BookCountrySheet ==
    /\ book_pc = "workbook"
    /\ bk <= Len(book_data)
    /\ sheets' = << [name |-> "Country", kind |-> "Country", owner |-> <<>>,
                     rows |-> DictKeys(Countries)] >>
    /\ created_sheets' = {"Country"}
    /\ book_pc' = "zones"
    /\ UNCHANGED <<book_data, bk, ni, li, workbooks>>
    /\ UNCHANGED book_frame

\* Lines 800-834: the "Zones" sheet: a row for each zone of each country.
BookZonesSheet ==
    /\ book_pc = "zones"
    /\ sheets' = Append(sheets,
                    [name |-> "Zones", kind |-> "Zones", owner |-> <<>>,
                     rows |-> Flatten([c \in 1..Len(Countries) |->
                                 ChildRows(Countries[c].key, Countries[c].value)])])
    /\ created_sheets' = created_sheets \cup {"Zones"}
    /\ ni' = 1
    /\ li' = 1
    /\ book_pc' = "sheets"
    /\ UNCHANGED <<book_data, bk, workbooks>>
    /\ UNCHANGED book_frame

\* Lines 836-864: one turn of the loop over nested_zones.
BookSubZoneSheet ==
    /\ book_pc = "sheets"
    /\ ni <= Len(NestedZones(Countries))
    /\ LET path == NestedZones(Countries)[ni]
           z_obj == NodeAt(Countries, path)
           sheet_name == UniqueSheetName(z_obj.name, created_sheets)
       IN  /\ sheets' = Append(sheets,
                           [name |-> sheet_name, kind |-> "sub", owner |-> path,
                            rows |-> ChildRows(z_obj.name, z_obj)])
           /\ created_sheets' = created_sheets \cup {sheet_name}
    /\ ni' = ni + 1
    /\ UNCHANGED <<book_data, bk, li, workbooks, book_pc>>
    /\ UNCHANGED book_frame

\* Lines 866-927: one turn of the loop over the leaf zones of a country; the
\* loops of the countries follow one another.
BookLeafSheet ==
    /\ book_pc = "sheets"
    /\ ni > Len(NestedZones(Countries))
    /\ li <= Len(LeafZones(Countries))
    /\ LET path == LeafZones(Countries)[li]
           leaf_zone == NodeAt(Countries, path)
           sheet_name == UniqueSheetName(leaf_zone.name, created_sheets)
       IN  /\ sheets' = Append(sheets,
                           [name |-> sheet_name, kind |-> "spots", owner |-> path,
                            headers |-> spot_headers,
                            rows |-> [k \in 1..Len(leaf_zone.surf_spots) |->
                                         [parent |-> leaf_zone.name,
                                          name |-> leaf_zone.surf_spots[k].name,
                                          attrs |-> SpotRowAttrs]]])
           /\ created_sheets' = created_sheets \cup {sheet_name}
    /\ li' = li + 1
    /\ UNCHANGED <<book_data, bk, ni, workbooks, book_pc>>
    /\ UNCHANGED book_frame

\* Lines 775-776 and 928-929: workbook.close() writes the file, and the loop
\* goes to the next continent.
BookClose ==
    /\ book_pc = "sheets"
    /\ ni > Len(NestedZones(Countries))
    /\ li > Len(LeafZones(Countries))
    /\ workbooks' = DictPut(workbooks,
                            Prefix(Sanitize(book_data[bk].key), 50) \o ".xlsx",
                            [continent |-> bk, sheets |-> sheets])
    /\ bk' = bk + 1
    /\ book_pc' = "workbook"
    /\ UNCHANGED <<book_data, created_sheets, sheets, ni, li>>
    /\ UNCHANGED book_frame

\* Line 773: the loop over the continents is over.
BookReturn ==
    /\ book_pc = "workbook"
    /\ bk > Len(book_data)
    /\ book_pc' = "done"
    /\ UNCHANGED <<book_data, bk, created_sheets, sheets, ni, li, workbooks>>
    /\ UNCHANGED book_frame

BookNext ==
    BookCountrySheet \/ BookZonesSheet \/ BookSubZoneSheet \/ BookLeafSheet
        \/ BookClose \/ BookReturn

(***************************************************************************)
(* Properties of build_excel_workbook                                       *)
(***************************************************************************)

RECURSIVE SubPaths(_, _)
\* The paths of the nodes of the tree z, whose own path is `path`.
SubPaths(z, path) ==
    {path} \cup UNION { SubPaths(z.sub_zones[i], Append(path, i)) :
                        i \in 1..Len(z.sub_zones) }

\* The paths of all the nodes of a continent's countries.
AllPaths(countries) ==
    UNION { SubPaths(countries[c].value, <<c>>) : c \in 1..Len(countries) }

\* The workbooks written and closed, and the one being written: the
\* continent and the sheets of each.
ClosedBooks == {workbooks[w].value : w \in 1..Len(workbooks)}

OpenBooks ==
    IF book_pc \in {"zones", "sheets"}
    THEN {[continent |-> bk, sheets |-> sheets]} ELSE {}

\* The sheets of a kind a node owns.
SheetsOf(shs, path, kind) ==
    {i \in 1..Len(shs) : shs[i].owner = path /\ shs[i].kind = kind}

\* C6: in every workbook written, every node with no sub-zones, at any
\* depth of its tree, has exactly one surf-spot sheet.
C6_LeafSheetAtAnyDepth ==
    \A wb \in ClosedBooks :
        LET countries == book_data[wb.continent].value
        IN  \A p \in AllPaths(countries) :
                NodeAt(countries, p).sub_zones = <<>>
                    => Cardinality(SheetsOf(wb.sheets, p, "spots")) = 1

\* C7: in every workbook written, every node that has sub-zones, at any
\* depth, has its children listed: a country on the rows of the "Zones"
\* sheet that bear its name, any other node on exactly one sheet of its own,
\* whose rows are its children.
C7_ChildListingAtAnyDepth ==
    \A wb \in ClosedBooks :
        LET countries == book_data[wb.continent].value
        IN  \A p \in AllPaths(countries) :
                LET node == NodeAt(countries, p)
                IN  node.sub_zones # <<>> =>
                        IF Len(p) = 1
                        THEN SelectSeq(wb.sheets[2].rows,
                                       LAMBDA r : r.parent = countries[p[1]].key)
                                 = ChildRows(countries[p[1]].key, node)
                        ELSE /\ Cardinality(SheetsOf(wb.sheets, p, "sub")) = 1
                             /\ \A i \in SheetsOf(wb.sheets, p, "sub") :
                                    wb.sheets[i].rows = ChildRows(node.name, node)

\* C15: in every workbook written, a node with sub-zones and surf spots of
\* its own is rendered once as a parent, its children listed (a country's
\* on the rows of the "Zones" sheet that bear its name, any other node's on
\* one sheet of its own), and has no surf-spot sheet.
C15_OneCategory ==
    \A wb \in ClosedBooks :
        LET countries == book_data[wb.continent].value
        IN  \A p \in AllPaths(countries) :
                LET node == NodeAt(countries, p)
                IN  (node.sub_zones # <<>> /\ node.surf_spots # <<>>) =>
                        /\ SheetsOf(wb.sheets, p, "spots") = {}
                        /\ IF Len(p) = 1
                           THEN \E r \in 1..Len(wb.sheets[2].rows) :
                                    wb.sheets[2].rows[r].parent = countries[p[1]].key
                           ELSE Cardinality(SheetsOf(wb.sheets, p, "sub")) = 1

\* The names of the sheets before the i-th.
EarlierNames(shs, i) == {shs[j].name : j \in 1..(i - 1)}

\* base[:28] followed by "_" and the counter k
Suffixed(base, k) == Prefix(base, 28) \o "_" \o Decimal(k)

\* The i-th sheet, a node's, is named as the collision loop names it: the
\* node's sanitized name cut to 31 characters when no earlier sheet bears
\* it, else its first 28 characters, "_" and the least counter from 1 on
\* that gives a name no earlier sheet bears.
NamedByLoop(shs, i, countries) ==
    LET base == Prefix(Sanitize(NodeAt(countries, shs[i].owner).name), 31)
        earlier == EarlierNames(shs, i)
    IN  IF base \notin earlier THEN shs[i].name = base
        ELSE \E k \in 1..Len(shs) :
                /\ shs[i].name = Suffixed(base, k)
                /\ \A j \in 1..(k - 1) : Suffixed(base, j) \in earlier

\* C8: the sheet names of one workbook are pairwise distinct, whatever the
\* names of the nodes: the first two are "Country" and "Zones", and each
\* later one is the name the collision loop gives its node, which no earlier
\* sheet bears; created_sheets holds exactly the names given so far.
C8_SheetNamesDistinct ==
    /\ \A wb \in ClosedBooks \cup OpenBooks :
          /\ \A i, j \in 1..Len(wb.sheets) :
                i < j => wb.sheets[i].name # wb.sheets[j].name
          /\ \A i \in 1..Len(wb.sheets) :
                IF i = 1 THEN wb.sheets[i].name = "Country"
                ELSE IF i = 2 THEN wb.sheets[i].name = "Zones"
                ELSE NamedByLoop(wb.sheets, i, book_data[wb.continent].value)
    /\ \A wb \in OpenBooks :
          created_sheets = {wb.sheets[i].name : i \in 1..Len(wb.sheets)}

\* A workbook where a zone named "Zones" met the reserved name, two zones
\* met on the base "Cote_Sud", and each got a counter.
C8_Witness ==
    /\ book_pc = "sheets"
    /\ {"Zones", "Zones_1", "Cote_Sud", "Cote_Sud_1"} \subseteq created_sheets
    /\ \E i \in 1..Len(sheets) :
          /\ sheets[i].name = "Zones_1"
          /\ NodeAt(Countries, sheets[i].owner).name = "Zones"

\* Two nodes with the same parent.
Siblings(p, q) ==
    /\ Len(p) = Len(q)
    /\ Len(p) > 1
    /\ p # q
    /\ SubSeq(p, 1, Len(p) - 1) = SubSeq(q, 1, Len(q) - 1)

\* The pairs of sheets of a workbook that belong to sibling nodes of the
\* names a and b.
SiblingSheets(wb, a, b) ==
    LET countries == book_data[wb.continent].value
    IN  { pr \in (3..Len(wb.sheets)) \X (3..Len(wb.sheets)) :
            /\ Siblings(wb.sheets[pr[1]].owner, wb.sheets[pr[2]].owner)
            /\ NodeAt(countries, wb.sheets[pr[1]].owner).name = a
            /\ NodeAt(countries, wb.sheets[pr[2]].owner).name = b }

\* The names a base can be given: itself, or itself with a counter.
NamesOfBase(base) == {base} \cup {Suffixed(base, k) : k \in 1..(MaxNodes + 2)}

CsvLabel(attr) ==
    CsvHeader[CHOOSE i \in 1..Len(ToRowAttrs) : ToRowAttrs[i] = attr]

\* The header h names what a column holds: the zone, the surf spot, or the
\* attribute that the CSV file puts under h.
NamesColumn(h, attr) ==
    \/ attr = "zone_name" /\ h = "zone"
    \/ attr = "name" /\ h \in {"surf spot name", "Surf Spots (count)"}
    \/ attr \in SeqToSet(SpotDataFields) /\ h = CsvLabel(attr)

\* C23: in every surf-spot sheet the header of each column names what every
\* row holds in that column, as the header of the CSV file does for the
\* attributes of Spot.to_row.
C23_HeaderNamesColumn ==
    /\ Len(CsvHeader) = Len(ToRowAttrs)
    /\ \A wb \in ClosedBooks \cup OpenBooks :
          \A i \in 1..Len(wb.sheets) :
              wb.sheets[i].kind = "spots" =>
                  \A r \in 1..Len(wb.sheets[i].rows) :
                      /\ Len(wb.sheets[i].rows[r].attrs) = Len(wb.sheets[i].headers)
                      /\ \A c \in 1..Len(wb.sheets[i].headers) :
                            NamesColumn(wb.sheets[i].headers[c],
                                        wb.sheets[i].rows[r].attrs[c])

\* C22: every sheet name of a workbook, the names the collision loop makes
\* after any number of collisions among them, has 31 characters at most.
C22_AtMost31 ==
    \A wb \in ClosedBooks \cup OpenBooks :
        \A i \in 1..Len(wb.sheets) : Len(wb.sheets[i].name) <= 31

(***************************************************************************)
(* format_seasons                                                           *)
(***************************************************************************)

\* How many times the caller renders the same mapping.
MaxRenders == 2

\* default_months
DefaultMonths == <<"jan_feb", "mar_apr", "may_jun", "jul_aug", "sep_oct", "nov_dec">>

\* The metric keys of season_metrics, in order.
SeasonMetricKeys ==
    <<"best_surfing_season", "typical_swell_size", "surf_equipment", "water_temp",
      "air_temp">>

\* month.replace("_", "/").title()
MonthLabel(month) == PyTitle(PyReplace(month, "_", "/"))

\* MonthLine for a renderer that prints the value "0" as it is.
MonthLineKeepsZero(values, month) ==
    LET val == IF month \in DOMAIN values THEN values[month] ELSE ""
    IN  IF val = "" THEN MonthLabel(month) \o " - empty"
        ELSE MonthLabel(month) \o " - " \o val

\* Lines 755-761: the row of one month, val being
\* seasons[metric_key].get(month, "").
MonthLine(values, month) ==
    LET val == IF month \in DOMAIN values THEN values[month] ELSE ""
    IN  IF val = "" \/ val = "0" THEN MonthLabel(month) \o " - empty"
        ELSE MonthLabel(month) \o " - " \o val

\* Lines 734-762.
format_seasons(seasons, metric_key) ==
    IF DOMAIN seasons = {} \/ metric_key \notin DOMAIN seasons
    THEN PyJoin("\n", [i \in 1..Len(DefaultMonths) |->
                          MonthLabel(DefaultMonths[i]) \o " - empty"])
    ELSE PyJoin("\n", [i \in 1..Len(DefaultMonths) |->
                          MonthLine(seasons[metric_key], DefaultMonths[i])])

\* The column keys of the mappings rendered: two of the month pairs and a
\* single month.
RenderedKeys == {"jan_feb", "mar_apr", "jan"}

\* The values parse_seasons_table writes: the empty string of a short row,
\* "0" of the placeholder image, a file name, a cleaned text.
RenderedValues == {"", "0", "3-star.png", "2 m"}

\* The mappings of one metric: any of the keys, each with any of the values.
MonthMaps == UNION {[ks -> RenderedValues] : ks \in SUBSET RenderedKeys}

\* The metric names of the mappings rendered: two that season_metrics names
\* and one that it does not.
RenderedMetrics == {"best_surfing_season", "air_temp", "best_season"}

\* The seasons mappings rendered: the empty one, one metric, two metrics.
SeasonsMaps ==
    {<<>>}
    \cup {m :> v : m \in RenderedMetrics, v \in MonthMaps}
    \cup {("best_surfing_season" :> v) @@ ("water_temp" :> ("jan_feb" :> "2 m")) :
              v \in MonthMaps}

FormatInit ==
    /\ fmt_seasons \in SeasonsMaps
    /\ fmt_metric_key \in {SeasonMetricKeys[i] : i \in 1..Len(SeasonMetricKeys)}
    /\ fmt_out = <<>>
    /\ fmt_pc = "render"

\* format_seasons is not running.
FormatIdle ==
    /\ fmt_seasons = <<>>
    /\ fmt_metric_key = ""
    /\ fmt_out = <<>>
    /\ fmt_pc = "idle"

\* Line 804: val = format_seasons(zone_obj.seasons, metric_key)
FormatCall ==
    /\ fmt_pc = "render"
    /\ Len(fmt_out) < MaxRenders
    /\ fmt_out' = Append(fmt_out, format_seasons(fmt_seasons, fmt_metric_key))
    /\ UNCHANGED <<fmt_seasons, fmt_metric_key, fmt_pc>>
    /\ UNCHANGED fmt_frame

\* The caller goes on with the strings it has.
FormatDone ==
    /\ fmt_pc = "render"
    /\ fmt_out # <<>>
    /\ fmt_pc' = "done"
    /\ UNCHANGED <<fmt_seasons, fmt_metric_key, fmt_out>>
    /\ UNCHANGED fmt_frame

FormatNext == FormatCall \/ FormatDone

(***************************************************************************)
(* Properties of format_seasons                                             *)
(***************************************************************************)

\* The places of the line breaks of s, in order.
BreaksOf(s) ==
    SelectSeq([i \in 1..Len(s) |-> i], LAMBDA i : CharAt(s, i) = "\n")

\* The lines of a rendered string: what stands between its line breaks.
LinesOf(s) ==
    LET brk == BreaksOf(s)
    IN  [k \in 1..(Len(brk) + 1) |->
            SubSeq(s, IF k = 1 THEN 1 ELSE brk[k - 1] + 1,
                      IF k = Len(brk) + 1 THEN Len(s) ELSE brk[k] - 1)]

\* The six labels, as they are to be printed.
SixLabels == <<"Jan/Feb", "Mar/Apr", "May/Jun", "Jul/Aug", "Sep/Oct", "Nov/Dec">>

\* What slot i of the axis shows for the mapping and the metric at hand.
Shown(i) ==
    IF fmt_metric_key \notin DOMAIN fmt_seasons THEN "empty"
    ELSE IF DefaultMonths[i] \notin DOMAIN fmt_seasons[fmt_metric_key] THEN "empty"
    ELSE IF fmt_seasons[fmt_metric_key][DefaultMonths[i]] \in {"", "0"} THEN "empty"
    ELSE fmt_seasons[fmt_metric_key][DefaultMonths[i]]

\* Every string returned has the six lines of the axis, each with its value
\* or "empty", and all the strings returned for the mapping are the same.
C21_SixLines ==
    \A k \in 1..Len(fmt_out) :
        /\ LinesOf(fmt_out[k]) = [i \in 1..6 |-> SixLabels[i] \o " - " \o Shown(i)]
        /\ fmt_out[k] = fmt_out[1]

\* C21: format_seasons renders six lines, Jan/Feb to Nov/Dec in that order,
\* for any mapping and any of the five metric keys; a missing metric, a
\* missing column, an empty value and "0" show as "empty", any other value
\* as it is; the mapping is left as it was, and a second rendering gives the
\* same string.
C21_FixedAxis == []C21_SixLines /\ [][fmt_seasons' = fmt_seasons]_vars

\* A mapping with a file name, a "0", a key outside the axis and no key for
\* the later months, rendered twice.
C21_Witness ==
    /\ Len(fmt_out) = 2
    /\ fmt_metric_key = "best_surfing_season"
    /\ DOMAIN fmt_seasons = {"best_surfing_season", "water_temp"}
    /\ fmt_seasons["best_surfing_season"]
          = ("jan_feb" :> "3-star.png" @@ "mar_apr" :> "0" @@ "jan" :> "2 m")
    /\ fmt_out[2] = "Jan/Feb - 3-star.png\nMar/Apr - empty\nMay/Jun - empty\n"
                      \o "Jul/Aug - empty\nSep/Oct - empty\nNov/Dec - empty"

(***************************************************************************)
(* Specifications: one per function, the others not running                 *)
(***************************************************************************)

InitSeasons == SeasonsInit /\ SpotIdle /\ NodeIdle /\ MainIdle /\ BookIdle /\ FormatIdle

SpecSeasons == InitSeasons /\ [][SeasonsNext]_vars

InitSpot == SpotInit /\ SeasonsIdle /\ NodeIdle /\ MainIdle /\ BookIdle /\ FormatIdle

SpecSpot == InitSpot /\ [][SpotNext]_vars

InitNode == NodeInit /\ SeasonsIdle /\ SpotIdle /\ MainIdle /\ BookIdle /\ FormatIdle

SpecNode == InitNode /\ [][NodeNext]_vars

InitMain == MainInit /\ SeasonsIdle /\ SpotIdle /\ NodeIdle /\ BookIdle /\ FormatIdle

SpecMain == InitMain /\ [][MainNext]_vars

InitBook == BookInit /\ SeasonsIdle /\ SpotIdle /\ NodeIdle /\ MainIdle /\ FormatIdle

SpecBook == InitBook /\ [][BookNext]_vars

InitBookWide ==
    BookWideInit /\ SeasonsIdle /\ SpotIdle /\ NodeIdle /\ MainIdle /\ FormatIdle

SpecBookWide == InitBookWide /\ [][BookNext]_vars

InitFormat ==
    FormatInit /\ SeasonsIdle /\ SpotIdle /\ NodeIdle /\ MainIdle /\ BookIdle

SpecFormat == InitFormat /\ [][FormatNext]_vars

====
